---- MODULE Spec2Model ----
(***************************************************************************)
(* Model of the tool-dispatch server (mcp-server/server.py, server.py) and *)
(* of the deployment state machine in handlers/autodeploy_handler.py.      *)
(*                                                                         *)
(* Python dicts are TLA+ functions over string keys, dict.get(k, d) is     *)
(* Get(d, k, dflt).  Deployment records are mutable dicts shared by        *)
(* reference between current_deployment, history and the local variable of *)
(* a running _start_deployment: they live in the heap `records` and are    *)
(* referred to by their index (0 is None).  The server runs on one asyncio *)
(* event loop, so a step of the model is the code a coroutine runs between *)
(* two suspension points (an await on a subprocess).                       *)
(***************************************************************************)
EXTENDS Integers, Sequences, FiniteSets, TLC

VARIABLES
    tools,           \* MCPServer.tools: the registry
    ui_processes,    \* UIGeneratorToolHandler.ui_processes: session id -> process
    procs,           \* the operating system's processes the handlers started
    handlers,        \* the repository fields (repo_path, repo_name, repo_url) of
                     \*   the handlers other than the autodeploy handler
    clones,          \* temporary directories made by the github handler so far
    repo_name,       \* AutoDeployToolHandler.repo_name
    repo_url,        \* AutoDeployToolHandler.repo_url
    repo_path,       \* AutoDeployToolHandler.repo_path
    deploy_config,   \* AutoDeployToolHandler.deploy_config
    deploy_status,   \* AutoDeployToolHandler.deploy_status: current_deployment, history
    records,         \* heap of the deployment record dicts, in creation order
    tasks,           \* execute_tool coroutines suspended inside _start_deployment
    stdin,           \* start_stdio_server: the lines read so far
    stdout,          \* start_stdio_server: the lines written so far
    loop,            \* start_stdio_server: "off" when the server runs over HTTP,
                     \*   "reading", "awaiting" a handler, or "closed"
    workload,        \* what the clients of this run ask for
    last             \* the step just taken:
                     \*   kind: a request arrived ("call") or a coroutine went on ("resume")
                     \*   name, arguments: the request handle_execute_tool serves
                     \*   env: the prerequisites a prepare_deployment found
                     \*   invoked: a handler's execute ran
                     \*   out: what execute did (returned a content, raised)
                     \*   rec, result: the record and the routine result of a
                     \*     _start_deployment that ran
                     \*   disp: what handle_execute_tool did
                     \*   response: what the transport sent back

vars ==
    <<tools, ui_processes, procs, handlers, clones, repo_name, repo_url, repo_path, deploy_config, deploy_status,
      records, tasks, stdin, stdout, loop, workload, last>>

stdio_vars == <<stdin, stdout, loop>>

\* The state owned by handler instances (everything but the suspended
\* coroutines and the record of the last step).
handler_vars ==
    <<handlers, repo_name, repo_url, repo_path, deploy_config, deploy_status, records>>

-----------------------------------------------------------------------------
\* Bounds of the model.

\* Number of deployment records created (successful prepare_deployment calls).
MaxRecords == 2

\* Number of execute_tool coroutines suspended on a subprocess at one time.
MaxTasks == 1

\* Number of clone calls that reach tempfile.mkdtemp().
MaxClones == 2

\* Number of lines the stdio server reads before the end of its input.
MaxLines == 3

\* Number of processes started by execute_command and ui_generator calls.
MaxProcs == 3

\* The operands of the calculate tool range over -MaxOperand .. MaxOperand.
MaxOperand == 4

-----------------------------------------------------------------------------
\* Python values.

\* None in a str-valued field, None as a record reference, {} and a
\* deploy_config that is None.
None == "None"
NoRecord == 0
EmptyDict == [k \in {} |-> ""]
NoConfig == [py_none |-> TRUE]

Get(d, k, dflt) == IF k \in DOMAIN d THEN d[k] ELSE dflt

\* Truth value of a str (or None) and of a dict (or None).
TruthyStr(v) == v # None /\ v # ""
TruthyDict(d) == d # NoConfig /\ DOMAIN d # {}

Range(f) == {f[i] : i \in DOMAIN f}

-----------------------------------------------------------------------------
\* The registry.

\* Tool(name=..., description=..., inputSchema=..., handler=self.handlers[key]):
\* of the inputSchema the model keeps the required properties; the handler
\* instance is named by its key in MCPServer.handlers.
Tool(name, description, required, handler) ==
    [name |-> name, description |-> description,
     inputSchema |-> [type |-> "object", required |-> required],
     handler |-> handler]

\* The value `next` gives when no tool has the name.
NoTool == Tool(None, None, <<>>, None)

\* MCPServer._setup_tools: the list assigned to self.tools.
setup_tools_mut_duplicate ==
    <<Tool("get_time", "Get the current time", <<>>, "time"),
      Tool("calculate", "Perform a simple calculation", <<"expression">>, "calc"),
      Tool("get_weather", "Get weather information for a location",
           <<"location">>, "weather"),
      Tool("github_repo", "Clone and analyze GitHub repositories",
           <<"action">>, "github"),
      Tool("execute_command",
           "Execute a command in the system shell and return the result",
           <<"command">>, "command"),
      Tool("analyze_code", "Analyze code in the repository",
           <<"action", "repo_path">>, "code_analysis"),
      Tool("autodeploy", "Automate deployment of code repositories",
           <<"action">>, "autodeploy"),
      Tool("autodeploy", "Generate and run UI for applications in the repository",
           <<"action">>, "ui_generator")>>

setup_tools ==
    <<Tool("get_time", "Get the current time", <<>>, "time"),
      Tool("calculate", "Perform a simple calculation", <<"expression">>, "calc"),
      Tool("get_weather", "Get weather information for a location",
           <<"location">>, "weather"),
      Tool("github_repo", "Clone and analyze GitHub repositories",
           <<"action">>, "github"),
      Tool("execute_command",
           "Execute a command in the system shell and return the result",
           <<"command">>, "command"),
      Tool("analyze_code", "Analyze code in the repository",
           <<"action", "repo_path">>, "code_analysis"),
      Tool("autodeploy", "Automate deployment of code repositories",
           <<"action">>, "autodeploy"),
      Tool("ui_generator", "Generate and run UI for applications in the repository",
           <<"action">>, "ui_generator")>>

\* The names of the registered tools.
ToolNames == {tools[i].name : i \in DOMAIN tools}

\* The first index of the registry whose tool has the name, 0 if none.
first_named(tool_name) ==
    IF \E i \in DOMAIN tools : tools[i].name = tool_name
    THEN CHOOSE i \in DOMAIN tools :
            /\ tools[i].name = tool_name
            /\ \A j \in 1..(i - 1) : tools[j].name # tool_name
    ELSE 0

\* next((t for t in self.tools if t.name == tool_name), None)
resolve_mut_default(tool_name) ==
    IF first_named(tool_name) # 0
    THEN tools[first_named(tool_name)]
    ELSE tools[1]

resolve(tool_name) ==
    IF first_named(tool_name) # 0
    THEN tools[first_named(tool_name)]
    ELSE NoTool

\* The envelope for a name that is not registered.
not_found(tool_name) ==
    [type |-> "error", message |-> "Tool '" \o tool_name \o "' not found"]

\* What a handler's execute did: returned ToolExecution(content), or raised.
Returned(content) == [raised |-> FALSE, content |-> content]
Raised(text) == [raised |-> TRUE, text |-> text]

\* The try/except around tool.handler.execute in handle_execute_tool: the
\* outcome of the dispatcher is a returned envelope, never an exception.
wrap_mut_reraise(out) ==
    IF out.raised
    THEN [kind |-> "raise", text |-> out.text]
    ELSE [kind |-> "return",
          envelope |-> [type |-> "execute_tool_result", content |-> out.content]]

wrap(out) ==
    IF out.raised
    THEN [kind |-> "return",
          envelope |-> [type |-> "error",
                        message |-> "Error executing tool: " \o out.text]]
    ELSE [kind |-> "return",
          envelope |-> [type |-> "execute_tool_result", content |-> out.content]]

-----------------------------------------------------------------------------
\* The environment a step observes: the file system and the subprocesses.

\* os.path.exists of a repository path: the one directory that exists.
ExistingPaths == {"/repo"}

\* exists: the build directory / Dockerfile / script exists under repo_path
\* executable: os.access(script, X_OK)
\* cli: docker --version / heroku --version: exit 0, exit # 0,
\*      FileNotFoundError, or another OSError
\* auth: heroku auth:whoami exits 0
\* raises: the awaited subprocess call raises
\* stdout, stderr: the subprocess wrote to the stream; rc0: it exited 0
\* restore_fails: os.chdir(current_dir) in an except block raises
\* files: what os.listdir(repo_path) shows to _detect_deployment_type
\* forks: /bin/sh runs the command as a child process (it does not exec it)
\* in_time: the awaited process is over within the timeout or grace period
\* alive: the process just started still runs when it is polled
Env0 ==
    [exists |-> TRUE, executable |-> TRUE, cli |-> "ok", auth |-> TRUE,
     raises |-> FALSE, stdout |-> FALSE, stderr |-> FALSE, rc0 |-> TRUE,
     restore_fails |-> FALSE, files |-> "",
     forks |-> FALSE, in_time |-> TRUE, alive |-> TRUE]

\* The environments that differ from Env0 in the given facts only.
WithBool(S, f) == {[e EXCEPT ![f] = b] : e \in S, b \in BOOLEAN}
WithCli(S) == {[e EXCEPT !.cli = c] : e \in S, c \in {"ok", "nonzero", "notfound", "oserror"}}
WithFiles(S) ==
    {[e EXCEPT !.files = f] : e \in S,
        f \in {"", "Dockerfile", "package.json", "requirements.txt", "server.js"}}

-----------------------------------------------------------------------------
\* AutoDeployToolHandler

\* The handler object as one value, for the operators below.
Handler ==
    [repo_path |-> repo_path, deploy_config |-> deploy_config,
     deploy_status |-> deploy_status, records |-> records]

\* The result of running handler code up to its return or next suspension:
\* the handler afterwards, the outcome, and what the step was about.
\*   rec: the record the coroutine holds in its local current_deployment
\*   result: the dict the deploy routine returned, if one ran to its end
\*   pc: where the coroutine is suspended ("" when it returned)
NoResult == [ran |-> FALSE, raised |-> FALSE, success |-> FALSE, message |-> ""]
Result(success, message) ==
    [ran |-> TRUE, raised |-> FALSE, success |-> success, message |-> message]
RoutineRaised(text) ==
    [ran |-> TRUE, raised |-> TRUE, success |-> FALSE, message |-> text]

Done(h, out) ==
    [h |-> h, pc |-> "", out |-> out, rec |-> NoRecord, result |-> NoResult]

\* A return of an error content from _prepare_deployment: nothing but the
\* saved deploy_config has changed.
prepare_fail_mut_reset(h, content) ==
    Done([h EXCEPT !.deploy_status.current_deployment = NoRecord], Returned(content))

prepare_fail(h, content) == Done(h, Returned(content))

\* _prepare_deployment, the per-type validation: the error content, or ""
\* when the configuration passes.
check_static(h, deploy_config_, env) ==
    LET build_dir == Get(deploy_config_, "build_dir", "")
    IN  IF build_dir = ""
        THEN "Error: Build directory not specified for static deployment"
        ELSE IF Get(deploy_config_, "build_command", "") = ""
        THEN "Error: Build command not specified for static deployment"
        ELSE IF Get(deploy_config_, "deploy_target", "") = ""
        THEN "Error: Deploy target not specified for static deployment"
        ELSE IF ~env.exists /\ ~Get(deploy_config_, "create_if_missing", FALSE)
        THEN "Error: Build directory '" \o build_dir
             \o "' does not exist. Set 'create_if_missing' to true if you want it to be created."
        ELSE ""

check_docker(h, deploy_config_, env) ==
    LET dockerfile_path == Get(deploy_config_, "dockerfile_path", "Dockerfile")
    IN  IF Get(deploy_config_, "image_name", "") = ""
        THEN "Error: Docker image name not specified"
        ELSE IF ~env.exists
        THEN "Error: Dockerfile not found at '" \o dockerfile_path \o "'"
        ELSE IF env.cli = "nonzero"
        THEN "Error: Docker is not installed or not accessible"
        ELSE IF env.cli = "notfound"
        THEN "Error: Docker is not installed or not in PATH"
        ELSE IF env.cli = "oserror"
        THEN "Error preparing deployment: [Errno 13] Permission denied: 'docker'"
        ELSE ""

check_heroku(h, deploy_config_, env) ==
    IF Get(deploy_config_, "app_name", "") = ""
    THEN "Error: Heroku app name not specified"
    ELSE IF env.cli = "nonzero"
    THEN "Error: Heroku CLI is not installed or not accessible"
    ELSE IF env.cli = "notfound"
    THEN "Error: Heroku CLI is not installed or not in PATH"
    ELSE IF env.cli = "oserror"
    THEN "Error preparing deployment: [Errno 13] Permission denied: 'heroku'"
    ELSE IF ~env.auth
    THEN "Error: Not authenticated with Heroku. Please run 'heroku login' first."
    ELSE ""

check_custom(h, deploy_config_, env) ==
    LET script_path == Get(deploy_config_, "script_path", "")
    IN  IF script_path = ""
        THEN "Error: Script path not specified for custom deployment"
        ELSE IF ~env.exists
        THEN "Error: Script not found at '" \o script_path \o "'"
        ELSE IF ~env.executable
        THEN "Warning: Script '" \o script_path
             \o "' is not executable. Will attempt to run with interpreter."
        ELSE ""

\* The record _prepare_deployment stores on success.
new_record(deploy_type, deploy_config_) ==
    [status |-> "prepared", type |-> deploy_type, config |-> deploy_config_,
     log |-> <<"Deployment preparation complete">>]

\* _prepare_deployment(deploy_config)
prepare_deployment(h, deploy_config_, env) ==
    IF ~TruthyDict(deploy_config_)
    THEN prepare_fail(h, "Error: Deployment configuration not provided")
    ELSE
    LET h1 == [h EXCEPT !.deploy_config = deploy_config_]
        deploy_type == Get(deploy_config_, "type", "")
        problem ==
            CASE deploy_type = "static" -> check_static(h1, deploy_config_, env)
              [] deploy_type = "docker" -> check_docker(h1, deploy_config_, env)
              [] deploy_type = "heroku" -> check_heroku(h1, deploy_config_, env)
              [] deploy_type = "custom" -> check_custom(h1, deploy_config_, env)
              [] OTHER -> "Error: Unsupported deployment type '" \o deploy_type
                          \o "'. Supported types: static, docker, heroku, custom"
    IN  IF deploy_type = ""
        THEN prepare_fail(h1, "Error: Deployment type not specified in configuration")
        ELSE IF problem # ""
        THEN prepare_fail(h1, problem)
        ELSE
        LET rec == Len(h1.records) + 1
            h2 == [h1 EXCEPT
                     !.records = Append(@, new_record(deploy_type, deploy_config_)),
                     !.deploy_status.current_deployment = rec]
        IN  [Done(h2, Returned("Deployment preparation successful. Type: "
                               \o deploy_type \o ". Ready to start deployment."))
               EXCEPT !.rec = rec]

-----------------------------------------------------------------------------
\* The deploy routines.  A routine runs inside try/except Exception; `st` is
\* the routine in flight: the handler, the exception raised so far (""
\* when none), the dict it returned, and the await it is suspended on.

Ok(h) == [h |-> h, exc |-> "", ret |-> NoResult, pc |-> ""]
Live(st) == st.exc = "" /\ ~st.ret.ran /\ st.pc = ""

NoneSubscript == "'NoneType' object is not subscriptable"
JoinTypeError == "expected str, bytes or os.PathLike object, not NoneType"
ChdirError == "[Errno 2] No such file or directory"
SubprocessError == "[Errno 11] Resource temporarily unavailable"

\* self.deploy_status["current_deployment"]["log"].append(entry): the
\* record that is current NOW, a TypeError when there is none.
log_current(st, entry) ==
    IF ~Live(st) THEN st
    ELSE IF st.h.deploy_status.current_deployment = NoRecord
    THEN [st EXCEPT !.exc = NoneSubscript]
    ELSE [st EXCEPT
            !.h.records[st.h.deploy_status.current_deployment].log = Append(@, entry)]

\* A statement that raises when cond holds; a return statement; an await.
throw(st, cond, text) == IF Live(st) /\ cond THEN [st EXCEPT !.exc = text] ELSE st
give(st, cond, result) == IF Live(st) /\ cond THEN [st EXCEPT !.ret = result] ELSE st
await(st, pc) == IF Live(st) THEN [st EXCEPT !.pc = pc] ELSE st

\* except Exception as e: return {"success": False, "message": prefix + str(e)}
catch(st, prefix) ==
    IF st.exc # ""
    THEN [st EXCEPT !.exc = "", !.ret = Result(FALSE, prefix \o st.exc)]
    ELSE st

\* The except block of _deploy_docker, _deploy_heroku and _deploy_custom
\* first restores the working directory, which can itself raise; that
\* exception leaves the routine.
catch_restore(st, prefix, env) ==
    IF st.exc # "" /\ env.restore_fails
    THEN [st EXCEPT !.exc = "", !.ret = RoutineRaised(ChdirError)]
    ELSE catch(st, prefix)

\* _deploy_static from "Create build directory if it doesn't exist" on.
static_tail(st, config, env) ==
    LET build_dir == Get(config, "build_dir", "")
        deploy_target == Get(config, "deploy_target", "")
        st1 == throw(st, st.h.repo_path = None, JoinTypeError)
        exists == env.exists \/ Get(config, "create_if_missing", FALSE)
        st2 == give(st1, ~exists,
                    Result(FALSE, "Build directory '" \o build_dir \o "' does not exist"))
        st3 == log_current(st2, "Deploying to " \o deploy_target)
        st4 == log_current(st3, "Would deploy <n> files from " \o build_dir
                                \o " to " \o deploy_target)
        st5 == give(st4, TRUE,
                    Result(TRUE, "Static deployment simulation successful.\n\nWould deploy <n> files from '"
                                 \o build_dir \o "' to '" \o deploy_target \o "'."))
    IN  catch(st5, "Static deployment failed: ")

\* _deploy_static up to the await on the build subprocess.
deploy_static(h, config, env) ==
    LET build_command == Get(config, "build_command", "")
        st1 == throw(Ok(h), env.raises, ChdirError)
        st2 == log_current(st1, "Running build command: " \o build_command)
        st3 == await(st2, "static_build")
    IN  IF build_command # ""
        THEN catch(st3, "Static deployment failed: ")
        ELSE static_tail(Ok(h), config, env)

\* _deploy_static after process.communicate() of the build.
deploy_static_built(h, config, env) ==
    LET st0 == throw(Ok(h), env.raises, SubprocessError)
        st1 == IF env.stdout THEN log_current(st0, "Build output: <stdout>...") ELSE st0
        st2 == IF env.stderr THEN log_current(st1, "Build errors: <stderr>") ELSE st1
        st3 == give(st2, ~env.rc0,
                    Result(FALSE, "Build command failed with exit code 1"))
    IN  static_tail(st3, config, env)

\* _deploy_docker up to the await on docker build.
deploy_docker(h, config, env) ==
    LET dockerfile_path == Get(config, "dockerfile_path", "Dockerfile")
        image_name == Get(config, "image_name", "")
        st1 == throw(Ok(h), env.raises, ChdirError)
        st2 == log_current(st1, "Building Docker image: " \o image_name)
        st3 == log_current(st2, "Running: docker build -t " \o image_name
                                \o " -f " \o dockerfile_path \o " .")
        st4 == await(st3, "docker_build")
    IN  catch_restore(st4, "Docker deployment failed: ", env)

\* _deploy_docker after process.communicate() of docker build.
deploy_docker_built(h, config, env) ==
    LET image_name == Get(config, "image_name", "")
        container_name == Get(config, "container_name", image_name \o "-container")
        run_cmd == "docker run -d --name " \o container_name \o "  " \o image_name
        st0 == throw(Ok(h), env.raises, SubprocessError)
        st1 == IF env.stdout THEN log_current(st0, "Build output: <stdout>...") ELSE st0
        st2 == IF env.stderr THEN log_current(st1, "Build errors: <stderr>") ELSE st1
        st3 == give(st2, ~env.rc0,
                    Result(FALSE, "Docker build failed with exit code 1"))
        st4 == log_current(st3, "Would start container with: " \o run_cmd)
        st5 == give(st4, TRUE,
                    Result(TRUE, "Docker deployment simulation successful.\n\nDocker image '"
                                 \o image_name \o "' built successfully.\n\nIn a production environment, use this command to run the container:\n"
                                 \o run_cmd))
    IN  catch_restore(st5, "Docker deployment failed: ", env)

\* _deploy_heroku up to the await on heroku apps:info.
deploy_heroku(h, config, env) ==
    LET app_name == Get(config, "app_name", "")
        st1 == throw(Ok(h), env.raises, ChdirError)
        st2 == log_current(st1, "Checking Heroku app: " \o app_name)
        st3 == log_current(st2, "Running: heroku apps:info --app " \o app_name)
        st4 == await(st3, "heroku_info")
    IN  catch_restore(st4, "Heroku deployment failed: ", env)

\* _deploy_heroku after heroku apps:info: app_exists = (returncode == 0).
deploy_heroku_info(h, config, env) ==
    LET app_name == Get(config, "app_name", "")
        create == ~env.rc0 /\ Get(config, "create_if_missing", FALSE)
        st0 == throw(Ok(h), env.raises, SubprocessError)
        st1 == IF create
               THEN await(log_current(st0, "Creating Heroku app: heroku apps:create "
                                           \o app_name),
                          "heroku_create")
               ELSE st0
        st2 == give(st1, ~env.rc0,
                    Result(FALSE, "Heroku app '" \o app_name
                                  \o "' does not exist. Set 'create_if_missing' to true to create it automatically."))
        st3 == await(st2, "heroku_remote")
    IN  catch_restore(st3, "Heroku deployment failed: ", env)

\* _deploy_heroku after heroku apps:create.
deploy_heroku_created(h, config, env) ==
    LET st0 == throw(Ok(h), env.raises, SubprocessError)
        st1 == give(st0, ~env.rc0,
                    Result(FALSE, "Failed to create Heroku app: "
                                  \o (IF env.stderr THEN "<stderr>" ELSE "Unknown error")))
        st2 == await(st1, "heroku_remote")
    IN  catch_restore(st2, "Heroku deployment failed: ", env)

\* The end of _deploy_heroku: "Push to Heroku (simulation)".
heroku_push(st, config, env) ==
    LET app_name == Get(config, "app_name", "")
        st1 == log_current(st, "Would push to Heroku with: git push heroku master")
        st2 == give(st1, TRUE,
                    Result(TRUE, "Heroku deployment simulation successful.\n\nHeroku app '"
                                 \o app_name \o "' is ready for deployment."))
    IN  catch_restore(st2, "Heroku deployment failed: ", env)

\* _deploy_heroku after git remote -v: remote_exists is whether stdout
\* names a heroku remote.
deploy_heroku_remote(h, config, env) ==
    LET app_name == Get(config, "app_name", "")
        remote_exists == env.stdout
        st0 == throw(Ok(h), env.raises, SubprocessError)
        st1 == IF ~remote_exists
               THEN await(log_current(st0, "Adding git remote: heroku git:remote -a "
                                           \o app_name),
                          "heroku_add_remote")
               ELSE st0
    IN  IF Live(st1)
        THEN heroku_push(st1, config, env)
        ELSE catch_restore(st1, "Heroku deployment failed: ", env)

\* _deploy_heroku after heroku git:remote.
deploy_heroku_added(h, config, env) ==
    LET st0 == throw(Ok(h), env.raises, SubprocessError)
        st1 == give(st0, ~env.rc0,
                    Result(FALSE, "Failed to add Heroku git remote: "
                                  \o (IF env.stderr THEN "<stderr>" ELSE "Unknown error")))
    IN  heroku_push(st1, config, env)

\* _deploy_custom: no await, the routine runs to its end in one step.
deploy_custom(h, config, env) ==
    LET script_path == Get(config, "script_path", "")
        \* not executable: by extension, bash for .sh and by default
        cmd == IF env.executable THEN "./" \o script_path ELSE "bash " \o script_path
        st1 == throw(Ok(h), h.repo_path = None, JoinTypeError)
        st2 == give(st1, ~env.exists,
                    Result(FALSE, "Script not found at '" \o script_path \o "'"))
        st3 == throw(st2, env.raises, ChdirError)
        st4 == log_current(st3, "Running custom deployment script: " \o script_path)
        st5 == log_current(st4, "Running: " \o cmd)
        st6 == log_current(st5, "Would execute: " \o cmd \o " in " \o h.repo_path)
        st7 == give(st6, TRUE,
                    Result(TRUE, "Custom deployment simulation successful.\n\nWould execute:\n"
                                 \o cmd \o "\n\nIn directory: " \o h.repo_path))
    IN  catch_restore(st7, "Custom deployment failed: ", env)

-----------------------------------------------------------------------------
\* _start_deployment

\* The three checks before the try block: the error content, or "" when
\* the deployment may start.
start_check_mut_nostatus(h) ==
    IF ~TruthyDict(h.deploy_config)
    THEN "Error: No deployment configuration. Please run prepare_deployment first."
    ELSE IF h.deploy_status.current_deployment = NoRecord
    THEN "Error: No deployment prepared. Please run prepare_deployment first."
    ELSE ""

start_check(h) ==
    IF ~TruthyDict(h.deploy_config)
    THEN "Error: No deployment configuration. Please run prepare_deployment first."
    ELSE IF h.deploy_status.current_deployment = NoRecord
    THEN "Error: No deployment prepared. Please run prepare_deployment first."
    ELSE IF h.records[h.deploy_status.current_deployment].status # "prepared"
    THEN "Error: Deployment is in '"
         \o h.records[h.deploy_status.current_deployment].status
         \o "' state, not 'prepared'. Cannot start."
    ELSE ""

\* current_deployment["status"] = "completed", the log entry, and the move
\* to history; current_deployment is the coroutine's local reference.
complete_mut_keep(h, rec) ==
    [h EXCEPT !.records[rec].status = "completed",
              !.records[rec].log = Append(@, "Deployment completed successfully"),
              !.deploy_status.history = Append(@, rec)]

complete(h, rec) ==
    [h EXCEPT !.records[rec].status = "completed",
              !.records[rec].log = Append(@, "Deployment completed successfully"),
              !.deploy_status.history = Append(@, rec),
              !.deploy_status.current_deployment = NoRecord]

\* current_deployment["status"] = "failed" and the log entry.
fail_mut_nostatus(h, rec, entry) ==
    [h EXCEPT !.records[rec].log = Append(@, entry)]

fail(h, rec, entry) ==
    [h EXCEPT !.records[rec].status = "failed",
              !.records[rec].log = Append(@, entry)]

\* The end of _start_deployment, from "Update deployment status based on
\* result" on, and its except block when the routine raised.
finish_deployment_mut_raised(h, rec, result) ==
    IF result.raised
    THEN [Done(h, Returned("Error during deployment: " \o result.message))
            EXCEPT !.rec = rec, !.result = result]
    ELSE IF result.success
    THEN [Done(complete(h, rec),
               Returned("Deployment successful!\n\n" \o result.message))
            EXCEPT !.rec = rec, !.result = result]
    ELSE [Done(fail(h, rec, "Deployment failed: " \o result.message),
               Returned("Deployment failed: " \o result.message))
            EXCEPT !.rec = rec, !.result = result]

finish_deployment(h, rec, result) ==
    IF result.raised
    THEN [Done(fail(h, rec, "Deployment failed with exception: " \o result.message),
               Returned("Error during deployment: " \o result.message))
            EXCEPT !.rec = rec, !.result = result]
    ELSE IF result.success
    THEN [Done(complete(h, rec),
               Returned("Deployment successful!\n\n" \o result.message))
            EXCEPT !.rec = rec, !.result = result]
    ELSE [Done(fail(h, rec, "Deployment failed: " \o result.message),
               Returned("Deployment failed: " \o result.message))
            EXCEPT !.rec = rec, !.result = result]

\* A routine step has run: the coroutine is suspended again, or the routine
\* is over and _start_deployment finishes.
after_routine(st, rec) ==
    IF st.pc # ""
    THEN [h |-> st.h, pc |-> st.pc, out |-> Returned(""), rec |-> rec, result |-> NoResult]
    ELSE finish_deployment(st.h, rec, st.ret)

\* current_deployment["status"] = "in_progress" and the log entry, set with
\* no await after the check of the status.
in_progress_mut_prepared(h, rec) ==
    [h EXCEPT !.records[rec].log = Append(@, "Starting deployment...")]

in_progress(h, rec) ==
    [h EXCEPT !.records[rec].status = "in_progress",
              !.records[rec].log = Append(@, "Starting deployment...")]

\* deploy_type = current_deployment["type"] and
\* deploy_config = current_deployment["config"]: what is deployed.
deployed_mut_latest(h, rec) ==
    [type |-> Get(h.deploy_config, "type", ""), config |-> h.deploy_config]

deployed(h, rec) ==
    [type |-> h.records[rec].type, config |-> h.records[rec].config]

\* _start_deployment()
start_deployment(h, env) ==
    IF start_check(h) # ""
    THEN Done(h, Returned(start_check(h)))
    ELSE
    LET rec == h.deploy_status.current_deployment
        h1 == in_progress(h, rec)
        deploy_type == deployed(h1, rec).type
        deploy_config_ == deployed(h1, rec).config
    IN  CASE deploy_type = "static" -> after_routine(deploy_static(h1, deploy_config_, env), rec)
          [] deploy_type = "docker" -> after_routine(deploy_docker(h1, deploy_config_, env), rec)
          [] deploy_type = "heroku" -> after_routine(deploy_heroku(h1, deploy_config_, env), rec)
          [] deploy_type = "custom" -> after_routine(deploy_custom(h1, deploy_config_, env), rec)
          [] OTHER ->
               [Done(fail(h1, rec, "Error: Unsupported deployment type '" \o deploy_type \o "'"),
                     Returned("Error: Unsupported deployment type '" \o deploy_type \o "'"))
                  EXCEPT !.rec = rec]

\* A suspended _start_deployment continues after its await.
resume_deployment(h, task, env) ==
    LET config == h.records[task.rec].config
        rec == task.rec
    IN  CASE task.pc = "static_build" -> after_routine(deploy_static_built(h, config, env), rec)
          [] task.pc = "docker_build" -> after_routine(deploy_docker_built(h, config, env), rec)
          [] task.pc = "heroku_info" -> after_routine(deploy_heroku_info(h, config, env), rec)
          [] task.pc = "heroku_create" -> after_routine(deploy_heroku_created(h, config, env), rec)
          [] task.pc = "heroku_remote" -> after_routine(deploy_heroku_remote(h, config, env), rec)
          [] task.pc = "heroku_add_remote" -> after_routine(deploy_heroku_added(h, config, env), rec)

-----------------------------------------------------------------------------
\* _abort_deployment

\* The two checks: the content returned when there is nothing to abort, or
\* "" when the abort goes ahead.
abort_check_mut_nostatus(h) ==
    IF h.deploy_status.current_deployment = NoRecord
    THEN "No active deployment to abort."
    ELSE ""

abort_check(h) ==
    IF h.deploy_status.current_deployment = NoRecord
    THEN "No active deployment to abort."
    ELSE IF h.records[h.deploy_status.current_deployment].status # "in_progress"
    THEN "Deployment is in '"
         \o h.records[h.deploy_status.current_deployment].status
         \o "' state, not 'in_progress'. Cannot abort."
    ELSE ""

\* _abort_deployment()
abort_deployment(h) ==
    IF abort_check(h) # ""
    THEN Done(h, Returned(abort_check(h)))
    ELSE
    LET rec == h.deploy_status.current_deployment
        h1 == [h EXCEPT !.records[rec].status = "aborted",
                        !.records[rec].log = Append(@, "Deployment aborted by user"),
                        !.deploy_status.history = Append(@, rec),
                        !.deploy_status.current_deployment = NoRecord]
    IN  [Done(h1, Returned("Deployment aborted successfully.")) EXCEPT !.rec = rec]

-----------------------------------------------------------------------------
\* _get_deployment_status

RECURSIVE join(_, _)
join(lines, sep) ==
    IF Len(lines) = 0 THEN ""
    ELSE IF Len(lines) = 1 THEN lines[1]
    ELSE lines[1] \o sep \o join(Tail(lines), sep)

\* seq[-n:]
LastN(seq, n) == IF Len(seq) <= n THEN seq ELSE SubSeq(seq, Len(seq) - n + 1, Len(seq))

\* The keys of the sample configurations, in insertion order, and str(value).
ConfigKeys ==
    <<"type", "target", "build_dir", "build_command", "deploy_target",
      "create_if_missing", "image_name", "app_name", "script_path">>
StrValue(config, key) ==
    IF key = "create_if_missing"
    THEN (IF config[key] THEN "True" ELSE "False")
    ELSE config[key]

config_lines(config) ==
    LET present == SelectSeq(ConfigKeys, LAMBDA k : k \in DOMAIN config)
    IN  [i \in 1..Len(present) |-> "  - " \o present[i] \o ": " \o StrValue(config, present[i])]

log_lines(log) ==
    IF Len(log) = 0 THEN <<>>
    ELSE <<"- Logs:">>
         \o [i \in 1..Len(LastN(log, 10)) |-> "  - " \o LastN(log, 10)[i]]
         \o (IF Len(log) > 10
             THEN <<"  - ... and " \o ToString(Len(log) - 10) \o " more log entries">>
             ELSE <<>>)

current_lines(h) ==
    LET current == h.records[h.deploy_status.current_deployment]
    IN  <<"\nCurrent Deployment:",
          "- Status: " \o current.status,
          "- Type: " \o current.type,
          "- Configuration:">>
        \o config_lines(current.config)
        \o log_lines(current.log)

RECURSIVE history_entries(_, _, _, _)
history_entries(h, shown, i, n) ==
    IF i > Len(shown) THEN <<>>
    ELSE <<"- Deployment " \o ToString(n - (i - 1)) \o ":",
           "  - Status: " \o h.records[shown[i]].status,
           "  - Type: " \o h.records[shown[i]].type>>
         \o history_entries(h, shown, i + 1, n)

history_lines(h) ==
    LET history == h.deploy_status.history
    IN  IF Len(history) = 0 THEN <<>>
        ELSE <<"\nDeployment History:">>
             \o history_entries(h, LastN(history, 5), 1, Len(history))
             \o (IF Len(history) > 5
                 THEN <<"  ... and " \o ToString(Len(history) - 5) \o " more past deployments">>
                 ELSE <<>>)

\* _get_deployment_status()
get_deployment_status_mut_clear(h) ==
    Done([h EXCEPT !.deploy_status.history = <<>>], Returned("Deployment Status:"))

get_deployment_status(h) ==
    IF h.deploy_status.current_deployment = NoRecord /\ Len(h.deploy_status.history) = 0
    THEN Done(h, Returned("No deployments have been initiated yet."))
    ELSE Done(h, Returned(join(
            <<"Deployment Status:">>
            \o (IF h.deploy_status.current_deployment # NoRecord
                THEN current_lines(h) ELSE <<>>)
            \o history_lines(h), "\n")))

\* _detect_deployment_type(): reads the repository root, writes nothing.
detect_deployment_type(h, env) ==
    IF env.raises
    THEN Done(h, Returned("Error detecting deployment type: " \o ChdirError))
    ELSE IF env.files = "Dockerfile"
    THEN Done(h, Returned("Detected frameworks/technologies: Docker\n\nRecommended deployment configuration: docker"))
    ELSE IF env.files = "package.json"
    THEN Done(h, Returned("Detected frameworks/technologies: React\n\nRecommended deployment configuration: static"))
    ELSE IF env.files = "requirements.txt"
    THEN Done(h, Returned("Detected frameworks/technologies: Flask\n\nRecommended deployment configuration: custom"))
    ELSE IF env.files = "server.js"
    THEN Done(h, Returned("Detected frameworks/technologies: Node.js\n\nRecommended deployment configuration: custom"))
    ELSE Done(h, Returned("Could not determine specific deployment type. Please specify deployment configuration manually."))

-----------------------------------------------------------------------------
\* AutoDeployToolHandler.execute(params)

\* os.path.exists(None) raises this TypeError.
StatTypeError == "stat: path should be string, bytes, os.PathLike or integer, not NoneType"

execute(h, params, env) ==
    LET action == Get(params, "action", "")
        h1 == [h EXCEPT !.repo_path = Get(params, "repo_path", None)]
        exempt == action = "get_status" \/ action = "abort_deployment"
    IN  IF ~TruthyStr(h1.repo_path) /\ ~exempt
        THEN Done(h1, Returned("Error: Repository path not provided. Please clone a repository first."))
        ELSE IF h1.repo_path = None
        THEN Done(h1, Raised(StatTypeError))
        ELSE IF h1.repo_path \notin ExistingPaths /\ ~exempt
        THEN Done(h1, Returned("Error: Repository path " \o h1.repo_path \o " does not exist."))
        ELSE CASE action = "prepare_deployment" ->
                    prepare_deployment(h1, Get(params, "deploy_config", EmptyDict), env)
               [] action = "start_deployment" -> start_deployment(h1, env)
               [] action = "get_status" -> get_deployment_status(h1)
               [] action = "abort_deployment" -> abort_deployment(h1)
               [] action = "detect_deployment_type" -> detect_deployment_type(h1, env)
               [] OTHER ->
                    Done(h1, Returned("Error: Unknown action '" \o action
                        \o "'. Available actions: prepare_deployment, start_deployment, get_status, abort_deployment, detect_deployment_type"))

\* TimeToolHandler.execute(params): the formatted clock reading.
time_execute(params) == Returned("<%Y-%m-%d %H:%M:%S>")

-----------------------------------------------------------------------------
\* The repository context: BaseHandler.repo_path, repo_name, repo_url.

\* The keys of MCPServer.handlers other than 'autodeploy'.
HandlerKeys ==
    {"time", "calc", "weather", "github", "command", "code_analysis", "ui_generator"}

\* BaseHandler.__init__
NoContext == [repo_path |-> None, repo_name |-> None, repo_url |-> None]

\* The repositories the clients clone, and
\* repo_url.split("/")[-1].replace(".git", "") for each of them.
RepoUrls == {"https://github.com/org/app.git", "https://github.com/org/site"}
repo_name_of(url) ==
    CASE url = "https://github.com/org/app.git" -> "app"
      [] url = "https://github.com/org/site" -> "site"

\* tempfile.mkdtemp(): a directory that did not exist before.
mkdtemp(n) == "/tmp/tmp" \o ToString(n + 1)

\* GitHubRepoToolHandler.execute(params), on the fields g of the handler:
\* the fields afterwards, the number of directories made, the outcome.
github_execute(g, n, params, env) ==
    LET action == Get(params, "action", "")
        url == Get(params, "repo_url", "")
        g1 == [repo_path |-> mkdtemp(n), repo_name |-> repo_name_of(url),
               repo_url |-> url]
    IN  IF action = "clone"
        THEN IF url = ""
             THEN [handler |-> g, clones |-> n,
                   out |-> Returned("Error: Repository URL not provided")]
             ELSE IF env.cli = "notfound"
             THEN [handler |-> g1, clones |-> n + 1,
                   out |-> Raised("[Errno 2] No such file or directory: 'git'")]
             ELSE IF ~env.rc0
             THEN [handler |-> g1, clones |-> n + 1,
                   out |-> Returned("Error cloning repository: <stderr>")]
             ELSE [handler |-> g1, clones |-> n + 1,
                   out |-> Returned("Successfully cloned repository: " \o url
                                    \o " to " \o g1.repo_path)]
        ELSE IF action \in {"list_files", "read_file", "get_repo_info"}
        THEN [handler |-> g, clones |-> n,
              out |-> IF g.repo_path = None
                      THEN Returned("Error: No repository is currently cloned")
                      ELSE Returned("<" \o action \o " of " \o g.repo_name \o ">")]
        ELSE [handler |-> g, clones |-> n,
              out |-> Returned("Error: Unknown action '" \o action
                  \o "'. Available actions: clone, list_files, read_file, get_repo_info")]

\* CodeAnalysisToolHandler.execute(params), on the fields c of the handler;
\* the analyses read the repository and write no field.
code_analysis_execute(c, params) ==
    LET action == Get(params, "action", "")
        c1 == [c EXCEPT !.repo_path = Get(params, "repo_path", None)]
    IN  IF ~TruthyStr(c1.repo_path)
        THEN [handler |-> c1,
              out |-> Returned("Error: Repository path not provided. Please clone a repository first.")]
        ELSE IF c1.repo_path \notin ExistingPaths
        THEN [handler |-> c1,
              out |-> Returned("Error: Repository path " \o c1.repo_path \o " does not exist.")]
        ELSE [handler |-> c1, out |-> Returned("<" \o action \o ">")]

\* os.path.exists(path) after n clone calls reached mkdtemp: a clone removes
\* the directory of the clone before it (shutil.rmtree) and makes a new one.
exists(path, n) == path \in ExistingPaths \/ (n > 0 /\ path = mkdtemp(n - 1))

-----------------------------------------------------------------------------
\* CalcToolHandler

\* The expression strings "f(x, y)" the clients send, kept as their parts;
\* f is "" for the empty string and "pow" for a name eval does not know.
Expression(f, x, y) == [f |-> f, x |-> x, y |-> y]

Digit(d) ==
    CASE d = 0 -> "0" [] d = 1 -> "1" [] d = 2 -> "2" [] d = 3 -> "3" [] d = 4 -> "4"
      [] d = 5 -> "5" [] d = 6 -> "6" [] d = 7 -> "7" [] d = 8 -> "8" [] d = 9 -> "9"

RECURSIVE digits(_)
digits(n) == IF n < 10 THEN Digit(n) ELSE digits(n \div 10) \o Digit(n % 10)

\* str(n) of an int
str(n) == IF n < 0 THEN "-" \o digits(0 - n) ELSE digits(n)

Abs(n) == IF n < 0 THEN 0 - n ELSE n

\* str(x / y) of the float x / y, y # 0: an integral quotient prints with
\* ".0"; the digits of another quotient are not modelled.
str_quotient(x, y) ==
    IF Abs(x) % Abs(y) = 0
    THEN (IF (x < 0) # (y < 0) /\ x # 0 THEN "-" ELSE "")
         \o digits(Abs(x) \div Abs(y)) \o ".0"
    ELSE "<" \o str(x) \o "/" \o str(y) \o ">"

\* str(result) for the lambdas add, subtract, multiply and divide.
calc_mut_swapped(f, x, y) ==
    CASE f = "add" -> str(x + y)
      [] f = "subtract" -> str(y - x)
      [] f = "multiply" -> str(x * y)
      [] f = "divide" -> IF y # 0 THEN str_quotient(x, y) ELSE "Division by zero error"

calc(f, x, y) ==
    CASE f = "add" -> str(x + y)
      [] f = "subtract" -> str(x - y)
      [] f = "multiply" -> str(x * y)
      [] f = "divide" -> IF y # 0 THEN str_quotient(x, y) ELSE "Division by zero error"

\* CalcToolHandler.execute(params): eval of the expression; what eval raises
\* is returned as "Error: ...".
calc_execute(params) ==
    LET expression == Get(params, "expression", Expression("", 0, 0))
    IN  IF expression.f = ""
        THEN Returned("Error: <SyntaxError>")
        ELSE IF expression.f \notin {"add", "subtract", "multiply", "divide"}
        THEN Returned("Error: name '" \o expression.f \o "' is not defined")
        ELSE Returned(calc(expression.f, expression.x, expression.y))

-----------------------------------------------------------------------------
\* Processes: what create_subprocess_shell and subprocess.Popen start.

\* kind: "shell" (/bin/sh -c command), "command" (a child of the shell) or
\* "ui" (an application server); parent: the shell of a "command", else 0.
Process(kind, parent) == [kind |-> kind, state |-> "running", parent |-> parent]

Running(ps) == {i \in DOMAIN ps : ps[i].state = "running"}

\* The shell p and the processes it started.
Family(ps, p) == {p} \cup {i \in DOMAIN ps : ps[i].parent = p}

-----------------------------------------------------------------------------
\* CommandExecutionToolHandler

\* params.get("timeout", 30)
DefaultTimeout == 30

\* A handler suspended at pc.
Suspended(h, pc) ==
    [h |-> h, pc |-> pc, out |-> Returned(""), rec |-> NoRecord, result |-> NoResult]

\* CommandExecutionToolHandler.execute(params) up to
\* await asyncio.wait_for(process.communicate(), timeout): the processes
\* afterwards and what the handler did.
command_execute(ps, params, env) ==
    IF ~TruthyStr(Get(params, "command", ""))
    THEN [procs |-> ps, step |-> Done(Handler, Returned("Error: Command not provided"))]
    ELSE IF ~env.exists
    THEN [procs |-> ps,
          step |-> Done(Handler, Returned("Error executing command: "
                                          \o "[Errno 2] No such file or directory"))]
    ELSE [procs |-> IF env.forks
                    THEN ps \o <<Process("shell", 0), Process("command", Len(ps) + 1)>>
                    ELSE Append(ps, Process("shell", 0)),
          step |-> Suspended(Handler, "communicate")]

\* process.kill(): SIGKILL to the process p, and to no other process.
kill(ps, p) ==
    [i \in DOMAIN ps |->
        IF i = p /\ ps[i].state = "running"
        THEN [ps[i] EXCEPT !.state = "killed"]
        ELSE ps[i]]

\* The command is over: the shell and what it started have exited.
exited(ps, p) ==
    [i \in DOMAIN ps |->
        IF i \in Family(ps, p) THEN [ps[i] EXCEPT !.state = "exited"] ELSE ps[i]]

\* execute after the await: communicate() returned, or wait_for raised
\* asyncio.TimeoutError and the process is killed.
command_communicated(ps, p, params, env) ==
    IF env.in_time
    THEN [procs |-> exited(ps, p),
          out |-> IF env.rc0
                  THEN Returned("Command executed successfully:\n\nSTDOUT:\n<stdout>")
                  ELSE Returned("Command execution failed with exit code 1:"
                                \o "\n\nSTDOUT:\n<stdout>\n\nSTDERR:\n<stderr>")]
    ELSE [procs |-> kill(ps, p),
          out |-> Returned("Error: Command execution timed out after "
                           \o str(Get(params, "timeout", DefaultTimeout))
                           \o " seconds")]

-----------------------------------------------------------------------------
\* UIGeneratorToolHandler

\* session_id = f"ui_{int(time.time())}_{uuid.uuid4().hex[:8]}": an id no
\* session had before, here made of the number of the process.
new_session_id(ps) == "ui_" \o str(Len(ps) + 1)

\* The applications of the cloned repository the clients name.
AppPaths == {"index.html", "notes.txt"}

\* UIGeneratorToolHandler._generate_ui(app_path) for an HTML file, with
\* _serve_html: the server is started and stored under a new session id,
\* and polled after asyncio.sleep(2).  No other request can name the
\* session before this call returns its id, so the sleep is not a step.
generate_ui(ui, ps, app_path, env) ==
    IF ~env.exists
    THEN [ui_processes |-> ui, procs |-> ps,
          out |-> Returned("Error: Application path '" \o app_path \o "' does not exist")]
    ELSE IF app_path # "index.html"
    THEN [ui_processes |-> ui, procs |-> ps,
          out |-> Returned("Unsupported application type for " \o app_path
                           \o ". Currently supporting .py, .js, and .html files.")]
    ELSE IF env.raises
    THEN [ui_processes |-> ui, procs |-> ps,
          out |-> Returned("Error serving HTML file: [Errno 2] No such file or directory")]
    ELSE [ui_processes |-> (new_session_id(ps) :> (Len(ps) + 1)) @@ ui,
          procs |-> Append(ps, IF env.alive THEN Process("ui", 0)
                               ELSE [Process("ui", 0) EXCEPT !.state = "exited"]),
          out |-> IF env.alive
                  THEN Returned("HTTP server started for " \o app_path
                                \o "!\n\nSession ID: " \o new_session_id(ps))
                  ELSE Returned("Server failed to start:\n\nSTDOUT:\n\n\nSTDERR:\n")]

\* process.terminate(); process.wait(timeout=5), and process.kill() when the
\* wait raises TimeoutExpired.
terminate(ps, p, env) ==
    IF ps[p].state # "running" THEN ps
    ELSE IF env.in_time THEN [ps EXCEPT ![p].state = "terminated"]
    ELSE kill(ps, p)

\* UIGeneratorToolHandler._stop_ui(session_id)
stop_ui(ui, ps, session_id, env) ==
    IF session_id \notin DOMAIN ui
    THEN [ui_processes |-> ui, procs |-> ps,
          out |-> Returned("Error: Invalid or unknown session ID")]
    ELSE [ui_processes |-> [k \in DOMAIN ui \ {session_id} |-> ui[k]],
          procs |-> terminate(ps, ui[session_id], env),
          out |-> Returned("UI session " \o session_id \o " has been stopped")]

\* UIGeneratorToolHandler.execute(params), for the handler with the fields
\* u after n clones.
ui_generator_execute(u, n, ui, ps, params, env) ==
    LET action == Get(params, "action", "")
        same(content) == [ui_processes |-> ui, procs |-> ps, out |-> Returned(content)]
    IN  IF ~TruthyStr(u.repo_path)
        THEN same("Error: No repository is currently cloned. Please clone a repository first.")
        ELSE IF ~exists(u.repo_path, n)
        THEN same("Error: Repository path " \o u.repo_path \o " does not exist.")
        ELSE CASE action = "scan_apps" -> same("<scan_apps>")
               [] action = "generate_ui" ->
                    IF ~TruthyStr(Get(params, "app_path", ""))
                    THEN same("Error: Application path not provided")
                    ELSE generate_ui(ui, ps, params.app_path, env)
               [] action = "stop_ui" ->
                    IF ~TruthyStr(Get(params, "session_id", ""))
                    THEN same("Error: Session ID not provided")
                    ELSE stop_ui(ui, ps, params.session_id, env)
               [] OTHER ->
                    same("Error: Unknown action '" \o action
                         \o "'. Available actions: scan_apps, generate_ui, stop_ui")

-----------------------------------------------------------------------------
\* The handler instances of the server.
Server ==
    [h |-> Handler, repo_name |-> repo_name, repo_url |-> repo_url,
     handlers |-> handlers, clones |-> clones,
     ui_processes |-> ui_processes, procs |-> procs]

\* MCPServer.share_repo_info(): the fields of the github handler are
\* assigned to every other handler.
share_repo_info_mut_path(s) ==
    [s EXCEPT !.h.repo_path = s.handlers["github"].repo_path,
              !.handlers = [k \in HandlerKeys |->
                              IF k = "github" THEN s.handlers[k]
                              ELSE [s.handlers[k] EXCEPT
                                      !.repo_path = s.handlers["github"].repo_path]]]

share_repo_info(s) ==
    [s EXCEPT !.h.repo_path = s.handlers["github"].repo_path,
              !.repo_name = s.handlers["github"].repo_name,
              !.repo_url = s.handlers["github"].repo_url,
              !.handlers = [k \in HandlerKeys |-> s.handlers["github"]]]

-----------------------------------------------------------------------------
\* MCPServer.handle_execute_tool(tool_name, arguments)

Pending == [kind |-> "pending"]

\* result = await tool.handler.execute(arguments): the handlers afterwards
\* and what the handler did.
handler_execute(tool, arguments, env) ==
    CASE tool.handler = "autodeploy" ->
            LET step == execute(Handler, arguments, env)
            IN  [server |-> [Server EXCEPT !.h = step.h], step |-> step]
      [] tool.handler = "github" ->
            LET g == github_execute(handlers["github"], clones, arguments, env)
            IN  [server |-> [Server EXCEPT !.handlers["github"] = g.handler,
                                           !.clones = g.clones],
                 step |-> Done(Handler, g.out)]
      [] tool.handler = "code_analysis" ->
            LET c == code_analysis_execute(handlers["code_analysis"], arguments)
            IN  [server |-> [Server EXCEPT !.handlers["code_analysis"] = c.handler],
                 step |-> Done(Handler, c.out)]
      [] tool.handler = "time" ->
            [server |-> Server, step |-> Done(Handler, time_execute(arguments))]
      [] tool.handler = "calc" ->
            [server |-> Server, step |-> Done(Handler, calc_execute(arguments))]
      [] tool.handler = "command" ->
            LET c == command_execute(procs, arguments, env)
            IN  [server |-> [Server EXCEPT !.procs = c.procs], step |-> c.step]
      [] tool.handler = "ui_generator" ->
            LET u == ui_generator_execute(handlers["ui_generator"], clones,
                                          ui_processes, procs, arguments, env)
            IN  [server |-> [Server EXCEPT !.ui_processes = u.ui_processes,
                                           !.procs = u.procs],
                 step |-> Done(Handler, u.out)]

\* The request runs until the handler returns, raises or is suspended.
\*   invoked: a handler's execute was called
\*   server: the handler instances afterwards
\*   step: what the handler did
\*   disp: what handle_execute_tool did: returned an envelope, or is
\*         suspended with its handler
\* handle_execute_tool after tool.handler.execute: r is what execute did.
executed(tool_name, arguments, r) ==
    LET shares == /\ r.step.pc = ""
                  /\ ~r.step.out.raised
                  /\ tool_name = "github_repo"
                  /\ Get(arguments, "action", None) = "clone"
    IN  [invoked |-> TRUE,
         server |-> IF shares THEN share_repo_info(r.server) ELSE r.server,
         step |-> r.step,
         disp |-> IF r.step.pc # "" THEN Pending ELSE wrap(r.step.out)]

handle_execute_tool(tool_name, arguments, env) ==
    IF resolve(tool_name) = NoTool
    THEN [invoked |-> FALSE, server |-> Server, step |-> Done(Handler, Returned("")),
          disp |-> [kind |-> "return", envelope |-> not_found(tool_name)]]
    ELSE executed(tool_name, arguments,
                  handler_execute(resolve(tool_name), arguments, env))

-----------------------------------------------------------------------------
\* The transports: http_execute_tool and start_stdio_server.

\* What a transport decoded: the body of a POST or a line of stdin.  It is
\* not JSON, or JSON that is not an object, or an object with its members.
InvalidJson == [valid |-> FALSE, object |-> FALSE, data |-> EmptyDict]
JsonArray == [valid |-> TRUE, object |-> FALSE, data |-> EmptyDict]
JsonObject(data) == [valid |-> TRUE, object |-> TRUE, data |-> data]

error(message) == [type |-> "error", message |-> message]

\* 'list'.get: data is not a dict.
AttributeError == "'list' object has no attribute 'get'"

\* handle_execute_tool was not called.
NotCalled == [kind |-> "none"]
Untouched ==
    [invoked |-> FALSE, server |-> Server, step |-> Done(Handler, Returned("")),
     disp |-> NotCalled]

\* handle_initialize(), handle_list_tools(): the descriptors by their names.
\* {"name": tool.name, "description": tool.description,
\*  "inputSchema": tool.inputSchema}
descriptor(tool) ==
    [name |-> tool.name, description |-> tool.description,
     inputSchema |-> tool.inputSchema]

handle_initialize ==
    [type |-> "initialize_result", supportedVersions |-> <<"0.1.0">>,
     tools |-> [i \in DOMAIN tools |-> descriptor(tools[i])]]

handle_list_tools_mut_names ==
    [type |-> "list_tools_result",
     tools |-> [i \in DOMAIN tools |-> [name |-> tools[i].name]]]

handle_list_tools ==
    [type |-> "list_tools_result",
     tools |-> [i \in DOMAIN tools |-> descriptor(tools[i])]]

\* web.json_response(body, status=status)
json_response(body, status) == [status |-> status, body |-> body]

\* The exception leaves the handler: aiohttp answers 500.
InternalServerError(text) == [status |-> 500, body |-> [raised |-> text]]

\* http_execute_tool after handle_execute_tool:
\* return web.json_response(response); an exception would leave the handler.
http_response_mut_status(disp) ==
    IF disp = Pending THEN Pending
    ELSE IF disp.kind = "raise" THEN InternalServerError(disp.text)
    ELSE json_response(disp.envelope, IF disp.envelope.type = "error" THEN 500 ELSE 200)

http_response(disp) ==
    IF disp = Pending THEN Pending
    ELSE IF disp.kind = "raise" THEN InternalServerError(disp.text)
    ELSE json_response(disp.envelope, 200)

http_responded(r) == [r |-> r, response |-> http_response(r.disp)]

http_named_mut_dispatch(request, env) ==
    http_responded(handle_execute_tool(Get(request.data, "name", None),
                                       Get(request.data, "arguments", EmptyDict), env))

\* http_execute_tool from "if not tool_name" on.
http_named(request, env) ==
    IF ~TruthyStr(Get(request.data, "name", None))
    THEN [r |-> Untouched,
          response |-> json_response(error("Tool name not provided"), 400)]
    ELSE http_responded(handle_execute_tool(Get(request.data, "name", None),
                                            Get(request.data, "arguments", EmptyDict),
                                            env))

\* http_execute_tool(request)
http_execute_tool(request, env) ==
    IF ~request.valid
    THEN [r |-> Untouched,
          response |-> json_response(error("Invalid JSON in request body"), 400)]
    ELSE IF ~request.object
    THEN [r |-> Untouched, response |-> InternalServerError(AttributeError)]
    ELSE http_named(request, env)

\* http_list_tools and http_initialize
http_list_tools == json_response(handle_list_tools, 200)

http_initialize == json_response(handle_initialize, 200)

\* json.dumps(response).encode('utf-8') + b'\n'
line(response) == [json |-> response, end |-> "\n"]

\* The loop of start_stdio_server after handle_execute_tool: the response
\* is written; an exception would be caught by "except Exception".
stdio_response(disp) ==
    IF disp = Pending THEN Pending
    ELSE IF disp.kind = "raise" THEN line(error("Server error: " \o disp.text))
    ELSE line(disp.envelope)

stdio_responded(r) == [r |-> r, response |-> stdio_response(r.disp)]

\* One pass of the loop of start_stdio_server, for the line it has read.
stdio_request_mut_silent(request, env) ==
    IF ~request.valid
    THEN [r |-> Untouched, response |-> Pending]
    ELSE IF ~request.object
    THEN [r |-> Untouched, response |-> line(error("Server error: " \o AttributeError))]
    ELSE CASE Get(request.data, "type", None) = "initialize" ->
                [r |-> Untouched, response |-> line(handle_initialize)]
           [] Get(request.data, "type", None) = "list_tools" ->
                [r |-> Untouched, response |-> line(handle_list_tools)]
           [] Get(request.data, "type", None) = "execute_tool" ->
                stdio_responded(handle_execute_tool(
                    Get(request.data, "name", None),
                    Get(request.data, "arguments", EmptyDict), env))
           [] OTHER ->
                [r |-> Untouched,
                 response |-> line(error("Unknown request type: "
                                         \o Get(request.data, "type", None)))]

stdio_request(request, env) ==
    IF ~request.valid
    THEN [r |-> Untouched, response |-> line(error("Invalid JSON: <detail>"))]
    ELSE IF ~request.object
    THEN [r |-> Untouched, response |-> line(error("Server error: " \o AttributeError))]
    ELSE CASE Get(request.data, "type", None) = "initialize" ->
                [r |-> Untouched, response |-> line(handle_initialize)]
           [] Get(request.data, "type", None) = "list_tools" ->
                [r |-> Untouched, response |-> line(handle_list_tools)]
           [] Get(request.data, "type", None) = "execute_tool" ->
                stdio_responded(handle_execute_tool(
                    Get(request.data, "name", None),
                    Get(request.data, "arguments", EmptyDict), env))
           [] OTHER ->
                [r |-> Untouched,
                 response |-> line(error("Unknown request type: "
                                         \o Get(request.data, "type", None)))]

-----------------------------------------------------------------------------
\* The requests the model issues.

\* Names that are not in the registry; None is what the stdio adapter passes
\* for a request without a name.
UnknownNames == {"nonexistent", None}

StaticConfig ==
    [type |-> "static", build_dir |-> "build", build_command |-> "npm run build",
     deploy_target |-> "/var/www/html"]
DockerConfig == [type |-> "docker", image_name |-> "app"]
HerokuConfig == [type |-> "heroku", app_name |-> "app", create_if_missing |-> TRUE]
CustomConfig == [type |-> "custom", script_path |-> "deploy.sh"]

ValidConfigs == {StaticConfig, DockerConfig, HerokuConfig, CustomConfig}

InvalidConfigs ==
    {EmptyDict,
     [target |-> "local"],
     [type |-> "ftp"],
     [type |-> "static", target |-> "local"],
     [type |-> "static", build_dir |-> "build"],
     [type |-> "static", build_dir |-> "build", build_command |-> "npm run build"],
     [type |-> "docker"],
     [type |-> "heroku"],
     [type |-> "custom"]}

\* A run of the model serves one workload: the clients deploy one type of
\* application through the whole life cycle (with "custom" they also send
\* the requests that change no deployment: unknown tools, unknown actions,
\* calls without a repo_path), or they submit configurations of every shape
\* to prepare_deployment, or they clone repositories and call the tools that
\* work on a repository.  With "stdio" the server was started without --http
\* and serves the lines of its standard input; otherwise it serves HTTP.
\* With "calc", "command" and "ui" the clients use the calculate tool, the
\* execute_command tool, and the ui_generator tool on cloned repositories.
Workloads ==
    {"static", "docker", "heroku", "custom", "validate", "repository", "stdio",
     "calc", "command", "ui"}

Call(action, path) == [action |-> action, repo_path |-> path]
Prepare(config) ==
    [action |-> "prepare_deployment", repo_path |-> "/repo", deploy_config |-> config]

AutodeployArguments(w) ==
    CASE w = "validate" ->
            {Prepare(c) : c \in ValidConfigs \cup InvalidConfigs}
            \cup {[action |-> "prepare_deployment", repo_path |-> "/repo"],
                  [action |-> "prepare_deployment", repo_path |-> "/missing",
                   deploy_config |-> StaticConfig],
                  [action |-> "prepare_deployment", deploy_config |-> StaticConfig]}
      [] w = "custom" ->
            {Prepare(c) : c \in {CustomConfig, EmptyDict, [type |-> "ftp"]}}
            \cup {Call(a, "/repo") :
                    a \in {"start_deployment", "get_status", "abort_deployment",
                           "detect_deployment_type", "deploy"}}
            \cup {[action |-> a] :
                    a \in {"start_deployment", "get_status", "abort_deployment"}}
      [] w = "static" ->
            {Prepare(StaticConfig),
             Call("start_deployment", "/repo"), Call("abort_deployment", "/repo"),
             Call("get_status", "/repo")}
      [] w = "docker" ->
            {Prepare(DockerConfig),
             Call("start_deployment", "/repo"), Call("abort_deployment", "/repo"),
             Call("detect_deployment_type", "/repo")}
      [] w = "repository" ->
            {Call("get_status", "/repo"), [action |-> "get_status"],
             [action |-> "detect_deployment_type"]}
      [] w \in {"stdio", "calc", "command", "ui"} -> {}
      [] OTHER ->
            \* heroku: one deployment, taken through the four awaits of its routine
            IF records = <<>>
            THEN {Prepare(HerokuConfig)}
            ELSE {Call("start_deployment", "/repo"), Call("abort_deployment", "/repo")}

GithubArguments ==
    {[action |-> "clone", repo_url |-> u] : u \in RepoUrls}
    \cup {[action |-> "clone"], [action |-> "get_repo_info"]}

AnalyzeArguments ==
    {[action |-> "analyze_languages", repo_path |-> "/repo"],
     [action |-> "analyze_languages"]}

\* Sample environments: Env0 with some facts changed.
Failing == [Env0 EXCEPT !.rc0 = FALSE]
Writing == [Env0 EXCEPT !.stdout = TRUE, !.stderr = TRUE]
Raising == [Env0 EXCEPT !.raises = TRUE]
Stuck == [Env0 EXCEPT !.raises = TRUE, !.restore_fails = TRUE]
Absent == [Env0 EXCEPT !.exists = FALSE]
Late == [Env0 EXCEPT !.in_time = FALSE]

\* calculate: the four functions on every pair of operands, a name that
\* eval does not know, and no expression.
Operands == (0 - MaxOperand)..MaxOperand

CalculateArguments ==
    {[expression |-> Expression(f, x, y)] :
        f \in {"add", "subtract", "multiply", "divide"}, x \in Operands, y \in Operands}
    \cup {[expression |-> Expression("pow", 2, 3)], EmptyDict}

\* execute_command: a command that outlives its timeout, in a working
\* directory that exists or not, and no command.
CommandArguments ==
    {[command |-> "sleep 2", timeout |-> 1],
     [command |-> "sleep 2; echo done"],
     [command |-> "ls", working_dir |-> "/missing"],
     EmptyDict}

\* What create_subprocess_shell can do with the command.
CommandEnvs(arguments) ==
    IF Get(arguments, "working_dir", None) = "/missing" THEN {Absent}
    ELSE IF Get(arguments, "command", "") = "sleep 2; echo done"
    THEN {[Env0 EXCEPT !.forks = TRUE]}
    ELSE {Env0, [Env0 EXCEPT !.forks = TRUE]}

\* ui_generator: every action, for the sessions of the first processes and
\* for a session that never was.
UiArguments ==
    {[action |-> "scan_apps"], [action |-> "generate_ui"], [action |-> "stop_ui"],
     [action |-> "restart_ui"]}
    \cup {[action |-> "generate_ui", app_path |-> a] : a \in AppPaths}
    \cup {[action |-> "stop_ui", session_id |-> i] : i \in {"ui_1", "ui_2", "ui_9"}}

\* What a ui_generator call can find.
UiEnvs(arguments) ==
    CASE Get(arguments, "action", "") = "generate_ui"
         /\ Get(arguments, "app_path", "") = "index.html" ->
            {Env0, Absent, Raising, [Env0 EXCEPT !.alive = FALSE]}
      [] Get(arguments, "action", "") = "stop_ui" ->
            {Env0, [Env0 EXCEPT !.in_time = FALSE]}
      [] OTHER -> {Env0}

\* Bodies of POST /execute_tool that carry no tool name.
NamelessBodies ==
    {InvalidJson, JsonArray, JsonObject(EmptyDict), JsonObject([name |-> ""]),
     JsonObject([arguments |-> [action |-> "get_status"]])}

\* An execute_tool line of stdin.
ExecuteTool(name, arguments) ==
    JsonObject([type |-> "execute_tool", name |-> name, arguments |-> arguments])

\* The lines the client of the stdio server writes.
StdioLines ==
    {InvalidJson, JsonArray,
     JsonObject([type |-> "initialize"]), JsonObject([type |-> "list_tools"]),
     JsonObject([type |-> "ping"]),
     JsonObject([type |-> "execute_tool"]),
     ExecuteTool("autodeploy", [action |-> "get_status"]),
     ExecuteTool("autodeploy", Prepare(StaticConfig)),
     ExecuteTool("autodeploy", Call("start_deployment", "/repo"))}

\* The facts of the environment a call can depend on.
StartEnvs ==
    IF deploy_status.current_deployment = NoRecord
       \/ start_check(Handler) # ""
    THEN {Env0}
    ELSE CASE records[deploy_status.current_deployment].type = "static" ->
                {Env0, Raising}
           [] records[deploy_status.current_deployment].type = "custom" ->
                {Env0, Raising, Stuck, Absent, [Env0 EXCEPT !.executable = FALSE]}
           [] OTHER -> {Env0, Raising, Stuck}

CallEnvs(arguments) ==
    LET action == Get(arguments, "action", "")
        type == Get(Get(arguments, "deploy_config", EmptyDict), "type", "")
    IN  CASE action = "prepare_deployment" /\ type = "static" -> {Env0, Absent}
          [] action = "prepare_deployment" /\ type = "docker" ->
                {Env0, Absent} \cup WithCli({Env0})
          [] action = "prepare_deployment" /\ type = "heroku" ->
                {Env0, [Env0 EXCEPT !.auth = FALSE]} \cup WithCli({Env0})
          [] action = "prepare_deployment" /\ type = "custom" ->
                {Env0, Absent, [Env0 EXCEPT !.executable = FALSE]}
          [] action = "start_deployment" -> StartEnvs
          [] action = "clone" -> {Env0, Failing, [Env0 EXCEPT !.cli = "notfound"]}
          [] action = "detect_deployment_type" ->
                {Env0, Raising, [Env0 EXCEPT !.files = "Dockerfile"]}
          [] OTHER -> {Env0}

\* The facts the code after an await can depend on.
ResumeEnvs(pc) ==
    CASE pc = "static_build" -> {Env0, Writing, Failing, Raising, Absent}
      [] pc = "docker_build" -> {Env0, Writing, Failing, Raising, Stuck}
      [] pc = "heroku_remote" -> {Env0, Writing, Raising}
      [] OTHER -> {Env0, Failing, Raising, Stuck}

-----------------------------------------------------------------------------
\* The state machine.

Init ==
    /\ tools = setup_tools
    /\ ui_processes = <<>>
    /\ procs = <<>>
    /\ handlers = [k \in HandlerKeys |-> NoContext]
    /\ clones = 0
    /\ repo_name = None
    /\ repo_url = None
    /\ repo_path = None
    /\ deploy_config = NoConfig
    /\ deploy_status = [current_deployment |-> NoRecord, history |-> <<>>]
    /\ records = <<>>
    /\ tasks = <<>>
    /\ workload \in Workloads
    /\ stdin = <<>>
    /\ stdout = <<>>
    /\ loop = IF workload = "stdio" THEN "reading" ELSE "off"
    /\ last = [kind |-> "init", via |-> "none",
               request |-> JsonObject(EmptyDict), name |-> None,
               arguments |-> EmptyDict, env |-> Env0,
               invoked |-> FALSE, out |-> Returned(""), rec |-> NoRecord,
               result |-> NoResult, disp |-> NotCalled, response |-> Pending]

SetHandler(h) ==
    /\ repo_path' = h.repo_path
    /\ deploy_config' = h.deploy_config
    /\ deploy_status' = h.deploy_status
    /\ records' = h.records

SetServer(s) ==
    /\ ui_processes' = s.ui_processes
    /\ procs' = s.procs
    /\ handlers' = s.handlers
    /\ clones' = s.clones
    /\ repo_name' = s.repo_name
    /\ repo_url' = s.repo_url
    /\ SetHandler(s.h)

\* The environment kept with the last step: the prerequisites a
\* prepare_deployment call found.
Observed(arguments, env) ==
    IF Get(arguments, "action", "") = "prepare_deployment" THEN env ELSE Env0

RemoveAt(seq, i) == SubSeq(seq, 1, i - 1) \o SubSeq(seq, i + 1, Len(seq))

\* The step of the server in which a transport served a request: x.r is
\* what handle_execute_tool did, x.response what the transport sent back.
Served(request, env, x) ==
    /\ Len(x.r.server.h.records) <= MaxRecords
    /\ x.r.server.clones <= MaxClones
    /\ x.r.step.pc # "" => Len(tasks) < MaxTasks
    /\ Len(x.r.server.procs) <= MaxProcs
    /\ SetServer(x.r.server)
    /\ UNCHANGED <<tools, workload>>
    /\ tasks' = IF x.r.step.pc # ""
                THEN Append(tasks, [rec |-> x.r.step.rec, pc |-> x.r.step.pc,
                                    request |-> request,
                                    process |-> IF x.r.step.pc = "communicate"
                                                THEN Len(procs) + 1 ELSE 0])
                ELSE tasks
    /\ last' = [kind |-> IF x.r.disp = NotCalled THEN "reject" ELSE "call",
                via |-> IF loop = "off" THEN "http" ELSE "stdio",
                request |-> request,
                name |-> Get(request.data, "name", None),
                arguments |-> Get(request.data, "arguments", EmptyDict),
                env |-> Observed(Get(request.data, "arguments", EmptyDict), env),
                invoked |-> x.r.invoked,
                out |-> x.r.step.out, rec |-> x.r.step.rec,
                result |-> x.r.step.result, disp |-> x.r.disp,
                response |-> x.response]

\* POST /execute_tool arrives and http_execute_tool runs to its return or
\* to the first await that suspends it.
HttpExecuteTool(request, env) ==
    /\ loop = "off"
    /\ \E x \in {http_execute_tool(request, env)} : Served(request, env, x)
    /\ UNCHANGED stdio_vars

Request(tool_name, arguments, env) ==
    HttpExecuteTool(JsonObject([name |-> tool_name, arguments |-> arguments]), env)

\* Names that are not registered, and no name.
UnknownTool == \E n \in UnknownNames :
    /\ workload \in {"custom", "validate"}
    /\ Request(n, [action |-> "get_status"], Env0)

Nameless == \E request \in NamelessBodies :
    /\ workload \in {"custom", "repository"}
    /\ HttpExecuteTool(request, Env0)

GetTime ==
    /\ workload \in {"custom", "repository"}
    /\ Request("get_time", EmptyDict, Env0)

Autodeploy == \E a \in AutodeployArguments(workload) : \E env \in CallEnvs(a) :
    Request("autodeploy", a, env)

GithubRepo == \E a \in GithubArguments : \E env \in CallEnvs(a) :
    /\ workload \in {"repository", "ui"}
    /\ Request("github_repo", a, env)

AnalyzeCode == \E a \in AnalyzeArguments :
    /\ workload = "repository"
    /\ Request("analyze_code", a, Env0)

Calculate == \E a \in CalculateArguments :
    /\ workload = "calc"
    /\ Request("calculate", a, Env0)

ExecuteCommand == \E a \in CommandArguments : \E env \in CommandEnvs(a) :
    /\ workload = "command"
    /\ Request("execute_command", a, env)

UiGenerator == \E a \in UiArguments : \E env \in UiEnvs(a) :
    /\ workload = "ui"
    /\ Request("ui_generator", a, env)

\* GET /list_tools and GET /initialize: the response is sent, nothing changes.
Got(kind, response) ==
    /\ loop = "off"
    /\ workload \in {"custom", "ui"}
    /\ last' = [kind |-> kind, via |-> "http", request |-> JsonObject(EmptyDict),
                name |-> None, arguments |-> EmptyDict, env |-> Env0,
                invoked |-> FALSE, out |-> Returned(""), rec |-> NoRecord,
                result |-> NoResult, disp |-> NotCalled, response |-> response]
    /\ UNCHANGED <<tools, ui_processes, procs, handler_vars, clones, tasks,
                   stdio_vars, workload>>

HttpListTools == Got("list_tools", http_list_tools)

HttpInitialize == Got("initialize", http_initialize)

\* The step of the stdio loop in which it did x for the line it read.
StdioServed(request, env, x) ==
    /\ Served(request, env, x)
    /\ stdin' = Append(stdin, request)
    /\ stdout' = IF x.response = Pending THEN stdout ELSE Append(stdout, x.response)
    /\ loop' = IF x.r.step.pc # "" THEN "awaiting" ELSE "reading"

\* The loop of start_stdio_server reads a line and serves it, up to the
\* write of the response or to the await that suspends the handler.
StdioLine ==
    \E request \in StdioLines :
    \E env \in CallEnvs(Get(request.data, "arguments", EmptyDict)) :
        /\ loop = "reading"
        /\ Len(stdin) < MaxLines
        /\ \E x \in {stdio_request(request, env)} : StdioServed(request, env, x)

\* readline() returns b"": the loop ends and the write transport is closed.
StdioEof ==
    /\ loop = "reading"
    /\ loop' = "closed"
    /\ last' = [last EXCEPT !.kind = "eof", !.response = Pending]
    /\ UNCHANGED <<tools, ui_processes, procs, handler_vars, clones, tasks,
                   stdin, stdout, workload>>

\* The step of the server in which the suspended coroutine tasks[i] did step.
Resumed(i, step) ==
    /\ SetHandler(step.h)
    /\ UNCHANGED <<tools, ui_processes, procs, handlers, clones, repo_name, repo_url,
                   workload, stdin>>
    /\ tasks' = IF step.pc # ""
                THEN [tasks EXCEPT ![i].pc = step.pc]
                ELSE RemoveAt(tasks, i)
    /\ stdout' = IF step.pc = "" /\ loop = "awaiting"
                 THEN Append(stdout, stdio_response(wrap(step.out)))
                 ELSE stdout
    /\ loop' = IF step.pc = "" /\ loop = "awaiting" THEN "reading" ELSE loop
    /\ last' = [kind |-> "resume", via |-> IF loop = "off" THEN "http" ELSE "stdio",
                request |-> tasks[i].request,
                name |-> "autodeploy",
                arguments |-> tasks[i].request.data.arguments,
                env |-> Env0, invoked |-> TRUE,
                out |-> step.out, rec |-> step.rec, result |-> step.result,
                disp |-> IF step.pc # "" THEN Pending ELSE wrap(step.out),
                response |-> IF step.pc # "" THEN Pending
                             ELSE IF loop = "off" THEN http_response(wrap(step.out))
                             ELSE stdio_response(wrap(step.out))]

\* The subprocess a suspended _start_deployment awaits is over: the
\* coroutine runs to its next await or to the return of handle_execute_tool.
Resume == \E i \in DOMAIN tasks : \E env \in ResumeEnvs(tasks[i].pc) :
    /\ tasks[i].pc # "communicate"
    /\ \E step \in {resume_deployment(Handler, tasks[i], env)} : Resumed(i, step)

\* wait_for is over for the suspended execute_command coroutine tasks[i]:
\* communicate() returned or the timeout expired; the handler returns and
\* the response is sent.
Communicated == \E i \in DOMAIN tasks : \E env \in {Env0, Failing, Late} :
    /\ tasks[i].pc = "communicate"
    /\ \E c \in {command_communicated(procs, tasks[i].process,
                                       tasks[i].request.data.arguments, env)} :
          /\ procs' = c.procs
          /\ tasks' = RemoveAt(tasks, i)
          /\ last' = [kind |-> "resume", via |-> "http",
                      request |-> tasks[i].request,
                      name |-> "execute_command",
                      arguments |-> tasks[i].request.data.arguments,
                      env |-> env, invoked |-> TRUE,
                      out |-> c.out, rec |-> NoRecord, result |-> NoResult,
                      disp |-> wrap(c.out), response |-> http_response(wrap(c.out))]
    /\ UNCHANGED <<tools, ui_processes, handler_vars, clones, stdio_vars, workload>>

Next ==
    \/ UnknownTool \/ Nameless \/ GetTime \/ Autodeploy \/ GithubRepo \/ AnalyzeCode
    \/ Calculate \/ ExecuteCommand \/ UiGenerator
    \/ HttpListTools \/ HttpInitialize
    \/ StdioLine \/ StdioEof
    \/ Resume \/ Communicated

Spec == Init /\ [][Next]_vars

\* The server started without --http: start_stdio_server is all that runs,
\* and the event loop resumes a coroutine whose subprocess is over.
StdioInit == Init /\ workload = "stdio"

StdioNext == StdioLine \/ StdioEof \/ Resume

StdioSpec == StdioInit /\ [][StdioNext]_vars /\ WF_vars(Resume)

\* A client that sends its autodeploy calls one after the other over HTTP:
\* each call has returned (no coroutine is suspended) before the next one
\* arrives.
SequentialInit == Init /\ workload \in {"static", "docker", "heroku", "custom"}

SequentialCall == tasks = <<>> /\ Autodeploy

SequentialNext == SequentialCall \/ Resume

SequentialSpec == SequentialInit /\ [][SequentialNext]_vars

-----------------------------------------------------------------------------
\* Properties of the dispatcher and of the deployment life cycle.

\* The step just taken served this action of the autodeploy tool.
IsCall(l, action) ==
    /\ l.kind = "call"
    /\ l.name = "autodeploy"
    /\ Get(l.arguments, "action", "") = action

\* handle_execute_tool returned the handler's content in a result envelope.
ReturnedContent(l, content) ==
    l.disp = [kind |-> "return",
              envelope |-> [type |-> "execute_tool_result", content |-> content]]

\* handle_execute_tool returned some result envelope.
ReturnedResult(l) ==
    /\ l.disp.kind = "return"
    /\ l.disp.envelope.type = "execute_tool_result"

current_deployment == deploy_status.current_deployment
history == deploy_status.history

\* C1: a request whose tool name is not in the registry is answered with the
\* envelope {type: error, message: "Tool '<name>' not found"}, no handler is
\* invoked, and the state of the handlers (and the suspended calls) is as it
\* was before the request.
C1_UnknownToolNotFound ==
    [][(last'.kind = "call" /\ last'.name \notin ToolNames) =>
          /\ last'.disp =
                [kind |-> "return",
                 envelope |-> [type |-> "error",
                               message |-> "Tool '" \o last'.name \o "' not found"]]
          /\ ~last'.invoked
          /\ UNCHANGED <<handler_vars, tasks>>]_vars

\* An unknown tool was requested while a deployment record was current.
C1_Witness ==
    /\ last.kind = "call"
    /\ last.name = "nonexistent"
    /\ last.disp.envelope.type = "error"
    /\ current_deployment # NoRecord

\* C2: when the invoked handler raises, handle_execute_tool does not raise:
\* it returns {type: error, message: "Error executing tool: <text>"} with the
\* text of the exception, so the transport that called it goes on serving.
C2_HandlerExceptionWrapped ==
    (last.invoked /\ last.disp # Pending /\ last.out.raised) =>
        last.disp =
            [kind |-> "return",
             envelope |-> [type |-> "error",
                           message |-> "Error executing tool: " \o last.out.text]]

\* execute raised the TypeError of os.path.exists(None) and the dispatcher
\* wrapped it.
C2_Witness ==
    /\ last.invoked
    /\ last.out = Raised(StatTypeError)
    /\ last.disp.kind = "return"
    /\ last.disp.envelope.message = "Error executing tool: " \o StatTypeError

\* The transitions of a record's status that the life cycle allows.
Edges ==
    {<<"prepared", "in_progress">>, <<"in_progress", "completed">>,
     <<"in_progress", "failed">>, <<"in_progress", "aborted">>}

\* A step of the model runs a call up to its next await, so it can take a
\* record along several edges: the paths of one or two edges.
Paths ==
    Edges \cup {<<e[1], f[2]>> : <<e, f>> \in {p \in Edges \X Edges : p[1][2] = p[2][1]}}

\* C3: the status of a deployment record changes only along prepared ->
\* in_progress -> completed or failed, or in_progress -> aborted; a record
\* that is completed, failed or aborted never changes status again, also
\* when calls on the handler overlap.
C3_StatusEdges ==
    [][\A r \in DOMAIN records :
          records'[r].status # records[r].status =>
              <<records[r].status, records'[r].status>> \in Paths]_vars

\* The contents start_deployment returns when it refuses to start.
StartRefusals ==
    {"Error: Repository path not provided. Please clone a repository first.",
     "Error: Repository path /missing does not exist.",
     "Error: No deployment configuration. Please run prepare_deployment first.",
     "Error: No deployment prepared. Please run prepare_deployment first."}
    \cup {"Error: Deployment is in '" \o s \o "' state, not 'prepared'. Cannot start." :
            s \in {"in_progress", "completed", "failed", "aborted"}}

\* C4: start_deployment proceeds only when a current record exists and its
\* status is prepared; in every other case it returns an error content, runs
\* no routine, and leaves the current record and the history unchanged.
C4_StartOnlyPrepared ==
    [][(/\ IsCall(last', "start_deployment")
        /\ ~(/\ current_deployment # NoRecord
             /\ records[current_deployment].status = "prepared")) =>
          /\ ReturnedResult(last')
          /\ last'.disp.envelope.content \in StartRefusals
          /\ ~last'.result.ran
          /\ UNCHANGED <<deploy_status, records, tasks>>]_vars

\* start_deployment was refused because an overlapping start_deployment has
\* the current record in progress.
C4_Witness ==
    /\ IsCall(last, "start_deployment")
    /\ ReturnedContent(last,
          "Error: Deployment is in 'in_progress' state, not 'prepared'. Cannot start.")
    /\ current_deployment # NoRecord
    /\ records[current_deployment].status = "in_progress"
    /\ tasks # <<>>

\* C5: when the deployment routine of a start_deployment reports success,
\* the started record has status completed, it is the last entry of the
\* history, and there is no current record.
C5_SuccessCompletes ==
    (last.result.ran /\ last.result.success) =>
        /\ records[last.rec].status = "completed"
        /\ history # <<>>
        /\ history[Len(history)] = last.rec
        /\ current_deployment = NoRecord

\* A prepared record was started and its routine succeeded.
C5_Witness ==
    /\ last.result.ran
    /\ last.result.success
    /\ ReturnedResult(last)
    /\ records[last.rec].status = "completed"
    /\ history = <<last.rec>>

\* C6: when the deployment routine of a start_deployment reports a failure
\* or raises, the started record has status failed, the last entry of its
\* log carries the failure message or the text of the exception, and
\* start_deployment returns a result instead of raising.
C6_FailureRecorded ==
    (last.result.ran /\ ~last.result.success) =>
        /\ records[last.rec].status = "failed"
        /\ records[last.rec].log[Len(records[last.rec].log)] =
              (IF last.result.raised
               THEN "Deployment failed with exception: "
               ELSE "Deployment failed: ") \o last.result.message
        /\ ~last.out.raised
        /\ ReturnedResult(last)

\* A routine that was suspended on its build came back with a failure.
C6_Witness ==
    /\ last.kind = "resume"
    /\ last.result.ran
    /\ ~last.result.success
    /\ ReturnedContent(last, "Deployment failed: " \o last.result.message)
    /\ records[last.rec].status = "failed"

AbortSucceeded(l) == ReturnedContent(l, "Deployment aborted successfully.")

PrepareSucceeded(l) ==
    \E t \in {"static", "docker", "heroku", "custom"} :
        ReturnedContent(l, "Deployment preparation successful. Type: " \o t
                           \o ". Ready to start deployment.")

PrerequisitesHold(config, env) ==
    CASE config.type = "static" -> env.exists
      [] config.type = "docker" -> env.exists /\ env.cli = "ok"
      [] config.type = "heroku" -> env.cli = "ok" /\ env.auth
      [] config.type = "custom" -> env.exists

\* C9: for every configuration of type static, docker, heroku or custom
\* that has its required fields, on an existing repository where the
\* prerequisites of the type hold, prepare_deployment succeeds and the
\* current record is prepared, has the type and the configuration of the
\* call, and a log of exactly one entry.
C9_ValidPrepareSucceeds ==
    (/\ IsCall(last, "prepare_deployment")
     /\ Get(last.arguments, "repo_path", None) \in ExistingPaths
     /\ Get(last.arguments, "deploy_config", EmptyDict) \in ValidConfigs
     /\ PrerequisitesHold(last.arguments.deploy_config, last.env)) =>
        /\ PrepareSucceeded(last)
        /\ current_deployment # NoRecord
        /\ records[current_deployment].status = "prepared"
        /\ records[current_deployment].type = last.arguments.deploy_config.type
        /\ records[current_deployment].config = last.arguments.deploy_config
        /\ Len(records[current_deployment].log) = 1

\* C10: every record that was the current record and is no longer the
\* current record is in the history: no record is dropped when
\* prepare_deployment replaces the current record.
C10_FormerCurrentInHistory ==
    \A r \in DOMAIN records :
        r # current_deployment => r \in Range(history)

\* C11: the history is append-only and its entries are immutable: whatever
\* the interleaving of the autodeploy calls, a step only adds entries at the
\* end of the history, and the status and the log of a record that is in
\* the history do not change.
C11_HistoryAppendOnly ==
    [][/\ Len(deploy_status'.history) >= Len(history)
       /\ SubSeq(deploy_status'.history, 1, Len(history)) = history
       /\ \A r \in Range(history) :
             /\ records'[r].status = records[r].status
             /\ records'[r].log = records[r].log]_vars

Terminal == {"completed", "failed", "aborted"}

\* C12: a record that reaches a terminal status (completed, failed,
\* aborted) is moved to the history and stops being the current record: in
\* every state the current record, if there is one, has a status that is
\* not terminal.
C12_CurrentNotTerminal ==
    current_deployment # NoRecord =>
        records[current_deployment].status \notin Terminal

\* C13: get_status and detect_deployment_type, called through execute in
\* any state, leave the deployment records (status, type, config, log), the
\* current record and the history unchanged.
C13_ReadOnlyActions ==
    [][(IsCall(last', "get_status") \/ IsCall(last', "detect_deployment_type")) =>
          UNCHANGED <<deploy_status, records>>]_vars

\* get_status rendered a deployment that is suspended on its build, with an
\* earlier deployment in the history.
C13_Witness ==
    /\ IsCall(last, "get_status")
    /\ ReturnedResult(last)
    /\ tasks # <<>>
    /\ current_deployment # NoRecord
    /\ records[current_deployment].status = "in_progress"
    /\ history # <<>>

\* The step just taken served a clone of the repository tool.
IsClone(l) ==
    /\ l.kind = "call"
    /\ l.name = "github_repo"
    /\ Get(l.arguments, "action", "") = "clone"

\* The repository fields of the handlers other than the github handler.
OtherContexts ==
    [k \in (HandlerKeys \ {"github"}) \cup {"autodeploy"} |->
        IF k = "autodeploy"
        THEN [repo_path |-> repo_path, repo_name |-> repo_name, repo_url |-> repo_url]
        ELSE handlers[k]]

\* C14: right after execute_tool completed a successful clone, every other
\* handler holds the repo_path, repo_name and repo_url of the clone handler.
C14_CloneBroadcast ==
    (IsClone(last) /\ ~last.out.raised
     /\ last.out.content = "Successfully cloned repository: "
                           \o Get(last.arguments, "repo_url", "") \o " to "
                           \o handlers["github"].repo_path) =>
        /\ handlers["github"].repo_url = last.arguments.repo_url
        /\ \A k \in DOMAIN OtherContexts : OtherContexts[k] = handlers["github"]

\* A second repository was cloned: the handlers hold its context.
C14_Witness ==
    /\ IsClone(last)
    /\ ReturnedContent(last, "Successfully cloned repository: https://github.com/org/site to /tmp/tmp2")
    /\ handlers["ui_generator"] =
          [repo_path |-> "/tmp/tmp2", repo_name |-> "site",
           repo_url |-> "https://github.com/org/site"]

\* C15: the repository context is propagated only when the clone succeeded:
\* after a clone call in which git clone returned an error, the repo_path,
\* repo_name and repo_url of every other handler are as before the call.
C15_FailedCloneKeepsContext ==
    [][(IsClone(last') /\ ReturnedContent(last', "Error cloning repository: <stderr>")) =>
          OtherContexts' = OtherContexts]_vars

\* C16: once the context has been broadcast, every handler keeps the value:
\* a later call that is not a clone leaves every handler's repo_path equal
\* to the broadcast value.
C16_BroadcastKept ==
    [][(/\ ~IsClone(last')
        /\ handlers["github"].repo_path # None
        /\ \A k \in DOMAIN OtherContexts :
              OtherContexts[k].repo_path = handlers["github"].repo_path) =>
          \A k \in DOMAIN OtherContexts :
              OtherContexts'[k].repo_path = handlers["github"].repo_path]_vars

\* The line of stdout that answers a line of stdin of this form.
Answers(answer, request) ==
    /\ answer.end = "\n"
    /\ IF ~request.valid
       THEN answer.json = [type |-> "error", message |-> "Invalid JSON: <detail>"]
       ELSE IF ~request.object
       THEN answer.json.type = "error"
       ELSE CASE Get(request.data, "type", None) = "initialize" ->
                    answer.json.type = "initialize_result"
              [] Get(request.data, "type", None) = "list_tools" ->
                    answer.json.type = "list_tools_result"
              [] Get(request.data, "type", None) = "execute_tool" ->
                    answer.json.type \in {"execute_tool_result", "error"}
              [] OTHER ->
                    answer.json =
                        [type |-> "error",
                         message |-> "Unknown request type: "
                                     \o Get(request.data, "type", None)]

\* C17: the stdio loop answers every line it read with exactly one
\* newline-terminated line, in the order of reading: the i-th line of stdout
\* answers the i-th line of stdin, a line that is not JSON with the error
\* envelope "Invalid JSON: ...", and only the line being served is without
\* an answer, which it gets when its handler returns.  Lines after a
\* malformed one are read and answered; only end of input closes the loop.
C17_StdioAnswersEveryLine ==
    /\ [](/\ Len(stdout) = IF loop = "awaiting" THEN Len(stdin) - 1 ELSE Len(stdin)
          /\ \A i \in DOMAIN stdout : Answers(stdout[i], stdin[i]))
    /\ [][/\ stdin' # stdin => (loop = "reading" /\ stdin' = Append(stdin, last'.request))
          /\ stdout' # stdout => (/\ Len(stdout') = Len(stdout) + 1
                                  /\ SubSeq(stdout', 1, Len(stdout)) = stdout)
          /\ loop' = "closed" => (loop = "reading" /\ last'.kind = "eof")
          /\ loop = "closed" => UNCHANGED stdio_vars]_vars
    /\ (loop = "awaiting" ~> loop = "reading")

C17_Witness ==
    /\ loop = "closed"
    /\ \E i \in DOMAIN stdin :
          /\ ~stdin[i].valid
          /\ i < Len(stdin)
          /\ stdin[i + 1].valid
          /\ stdout[i].json.message = "Invalid JSON: <detail>"
          /\ stdout[i + 1].json.type = "execute_tool_result"

\* A POST /execute_tool whose body is a JSON object without a name.
Unnamed(l) ==
    /\ l.kind \in {"call", "reject"}
    /\ l.via = "http"
    /\ l.request.valid
    /\ l.request.object
    /\ "name" \notin DOMAIN l.request.data

\* C18: a POST /execute_tool whose JSON body has no name is answered with
\* HTTP 400 and the error envelope "Tool name not provided"; no handler is
\* invoked and the state of the handlers is as before the request.
C18_MissingNameRejected ==
    [][Unnamed(last') =>
          /\ last'.response =
                [status |-> 400,
                 body |-> [type |-> "error", message |-> "Tool name not provided"]]
          /\ ~last'.invoked
          /\ UNCHANGED <<handler_vars, clones, tasks>>]_vars

C18_Witness ==
    /\ Unnamed(last)
    /\ "arguments" \in DOMAIN last.request.data
    /\ last.response.status = 400
    /\ records # <<>>

\* A POST /execute_tool whose body is a JSON object with a name, answered.
Named(l) ==
    /\ l.via = "http"
    /\ l.kind \in {"call", "reject", "resume"}
    /\ l.request.valid
    /\ l.request.object
    /\ TruthyStr(Get(l.request.data, "name", None))
    /\ l.response # Pending

\* C19: a POST /execute_tool whose body is a JSON object that names a tool
\* is answered with HTTP 200 and the envelope of the dispatcher; an unknown
\* tool and an exception of the handler are error envelopes with status 200.
C19_DispatcherEnvelopeIs200 ==
    Named(last) =>
        /\ last.disp.kind = "return"
        /\ last.response = [status |-> 200, body |-> last.disp.envelope]
        /\ last.name \notin ToolNames =>
              last.response.body =
                  [type |-> "error",
                   message |-> "Tool '" \o last.name \o "' not found"]
        /\ (last.invoked /\ last.out.raised) =>
              last.response.body =
                  [type |-> "error",
                   message |-> "Error executing tool: " \o last.out.text]

C19_Witness ==
    /\ Named(last)
    /\ last.invoked
    /\ last.out.raised
    /\ last.response.status = 200
    /\ last.response.body.type = "error"

\* Requests that execute a tool, with and without a name.
ExecuteToolRequests ==
    {[name |-> "get_time", arguments |-> EmptyDict],
     [name |-> "nonexistent", arguments |-> EmptyDict],
     [name |-> "autodeploy", arguments |-> [action |-> "get_status"]],
     [arguments |-> [action |-> "get_status"]],
     EmptyDict}

\* C20: the transports only serialize: in every state of the server, a
\* request to execute a tool, with or without a name, gets the same
\* envelope in the body of the HTTP response as on the line of stdout.
C20_TransportsAgree ==
    \A q \in ExecuteToolRequests :
        http_execute_tool(JsonObject(q), Env0).response.body =
            stdio_request(JsonObject(q @@ [type |-> "execute_tool"]), Env0).response.json

\* The tools of the response written for a line of stdin with this type.
StdioTools(type) ==
    stdio_request(JsonObject([type |-> type]), Env0).response.json.tools

\* C21: in every state of the server, the tool descriptors that list_tools
\* returns over HTTP are those it returns over stdio, and both are the
\* tools that initialize returns (over either transport); this also holds
\* of the response a GET /list_tools has just been given.
C21_ListToolsAgree ==
    /\ http_list_tools.status = 200
    /\ http_list_tools.body.tools = StdioTools("list_tools")
    /\ http_list_tools.body.tools = http_initialize.body.tools
    /\ StdioTools("list_tools") = StdioTools("initialize")
    /\ last.kind = "list_tools" =>
          last.response.body.tools = StdioTools("initialize")

C21_Witness ==
    /\ last.kind = "list_tools"
    /\ clones > 0
    /\ ui_processes # <<>>
    /\ Len(last.response.body.tools) = Len(setup_tools)

\* C22: the registry is what _setup_tools made of it, whatever requests
\* were served: no step changes the list of tools, the names of the tools
\* are pairwise distinct, every tool is bound to the handler instance it was
\* registered with, and resolving a registered name gives that tool.
C22_RegistryImmutable ==
    /\ [][tools' = tools]_vars
    /\ [](/\ \A i \in DOMAIN tools :
                /\ tools[i].handler = setup_tools[i].handler
                /\ descriptor(tools[i]) = descriptor(setup_tools[i])
                /\ resolve(tools[i].name) = tools[i]
                /\ \A j \in DOMAIN tools : tools[i].name = tools[j].name => i = j
          /\ DOMAIN tools = DOMAIN setup_tools
          /\ DOMAIN handlers \cup {"autodeploy"} =
                {tools[i].handler : i \in DOMAIN tools})

C22_Witness ==
    /\ last.kind = "call"
    /\ last.name = "ui_generator"
    /\ last.invoked
    /\ clones > 1
    /\ \E k \in DOMAIN ui_processes : procs[ui_processes[k]].state = "running"

\* C23: a handler's execute returns a result for every parameter map and
\* lets no exception escape: whenever a handler was invoked and the call is
\* over, execute returned a content and the envelope is a result envelope.
C23_HandlersNeverRaise ==
    (last.invoked /\ last.disp # Pending) =>
        /\ ~last.out.raised
        /\ last.disp.kind = "return"
        /\ last.disp.envelope.type = "execute_tool_result"

\* C24: repo_path is optional for the autodeploy tool: a get_status or an
\* abort_deployment call without a repo_path reaches its routine and
\* returns its result in a result envelope.
C24_RepoPathOptional ==
    \A action \in {"get_status", "abort_deployment"} :
        (IsCall(last, action) /\ "repo_path" \notin DOMAIN last.arguments) =>
            /\ ReturnedResult(last)
            /\ ~last.out.raised


\* The content execute_command returns when wait_for raised TimeoutError.
TimedOut(l) ==
    /\ l.kind = "resume"
    /\ l.name = "execute_command"
    /\ ReturnedContent(l, "Error: Command execution timed out after "
                          \o str(Get(l.arguments, "timeout", DefaultTimeout))
                          \o " seconds")

\* C25: when the command has not finished within the timeout, the handler
\* returns a result whose content reports the timeout, and once it has
\* returned neither the shell nor a process the shell started for the
\* command is running.
C25_TimeoutKillsCommand ==
    [][\A i \in DOMAIN tasks :
          (tasks[i].pc = "communicate" /\ tasks' = RemoveAt(tasks, i)
             /\ last'.kind = "resume" /\ last'.env = Late) =>
              /\ TimedOut(last')
              /\ Family(procs', tasks[i].process) \cap Running(procs') = {}]_vars


\* The step just taken served ui_generator's stop_ui for session_id.
IsStopUi(l, session_id) ==
    /\ l.kind = "call"
    /\ l.name = "ui_generator"
    /\ Get(l.arguments, "action", "") = "stop_ui"
    /\ Get(l.arguments, "session_id", "") = session_id

\* The error contents of a ui_generator call that names a session.
StopUiErrors ==
    {"Error: Invalid or unknown session ID",
     "Error: No repository is currently cloned. Please clone a repository first.",
     "Error: Repository path " \o handlers["ui_generator"].repo_path
        \o " does not exist."}

\* C26: stop_ui with a session id of the mapping terminates the session's
\* process (killing it when it does not exit in time), removes the entry
\* and reports success naming the id, so that a second stop_ui of the id
\* finds it unknown; stop_ui with an id that is not in the mapping returns
\* an error and leaves the mapping as it was.
C26_StopUiRemovesSession ==
    [][\A session_id \in {"ui_1", "ui_2", "ui_9"} :
          IsStopUi(last', session_id) =>
              IF session_id \in DOMAIN ui_processes
              THEN /\ session_id \notin DOMAIN ui_processes'
                   /\ ui_processes[session_id] \notin Running(procs')
                   /\ ReturnedContent(last', "UI session " \o session_id
                                             \o " has been stopped")
              ELSE /\ ui_processes' = ui_processes
                   /\ \E content \in StopUiErrors : ReturnedContent(last', content)]_vars


\* The step just taken served calculate for the expression f(x, y).
IsCalculate(l, f, x, y) ==
    /\ l.kind = "call"
    /\ l.name = "calculate"
    /\ Get(l.arguments, "expression", Expression("", 0, 0)) = Expression(f, x, y)

\* C27: for all integers x and y of the range, calculate returns the
\* decimal string of x + y for add(x, y), of x - y for subtract(x, y) and
\* of x * y for multiply(x, y), and for divide(x, 0) it returns
\* "Division by zero error" and raises nothing.
C27_CalculateArithmetic ==
    \A x \in Operands, y \in Operands :
        /\ IsCalculate(last, "add", x, y) => ReturnedContent(last, ToString(x + y))
        /\ IsCalculate(last, "subtract", x, y) => ReturnedContent(last, ToString(x - y))
        /\ IsCalculate(last, "multiply", x, y) => ReturnedContent(last, ToString(x * y))
        /\ IsCalculate(last, "divide", x, 0) =>
              /\ ReturnedContent(last, "Division by zero error")
              /\ ~last.out.raised

\* multiply(-4, 4) returned "-16".
C27_Witness ==
    /\ IsCalculate(last, "multiply", 0 - 4, 4)
    /\ ReturnedContent(last, "-16")


\* The step just taken served a start_deployment that ran the deployment
\* routine for the record rec.
Started(l, rec) ==
    /\ IsCall(l, "start_deployment")
    /\ rec # NoRecord
    /\ l.rec = rec

\* C28: under every interleaving of autodeploy calls on the event loop a
\* prepared record is started at most once: a start_deployment that runs a
\* routine finds its record prepared, started by no suspended call, and
\* leaves it not prepared before anything else runs, and the status of a
\* record never returns to prepared.
C28_StartedAtMostOnce ==
    [][/\ \A rec \in DOMAIN records' :
             Started(last', rec) =>
                 /\ rec \in DOMAIN records
                 /\ records[rec].status = "prepared"
                 /\ records'[rec].status # "prepared"
                 /\ \A i \in DOMAIN tasks : tasks[i].rec # rec
       /\ \A rec \in DOMAIN records :
             records[rec].status # "prepared" => records'[rec].status # "prepared"]_vars

\* A start_deployment arrived while another one was suspended in the routine
\* of the current record, and was refused.
C28_Witness ==
    /\ IsCall(last, "start_deployment")
    /\ last.rec = NoRecord
    /\ \E i \in DOMAIN tasks :
          /\ tasks[i].rec = current_deployment
          /\ Get(tasks[i].request.data.arguments, "action", "") = "start_deployment"
    /\ records[current_deployment].status = "in_progress"
    /\ ~last.result.ran


\* C29: when the autodeploy calls do not overlap (each call returns before
\* the next begins), the current record observed between two calls is absent
\* or has status prepared or failed, never in_progress, and so no
\* abort_deployment succeeds.
C29_SequentialNeverInProgress ==
    /\ tasks = <<>> =>
          \/ current_deployment = NoRecord
          \/ records[current_deployment].status \in {"prepared", "failed"}
    /\ ~(IsCall(last, "abort_deployment") /\ AbortSucceeded(last))

\* After a start_deployment that ran its routine and failed, an
\* abort_deployment found the current record failed and was refused.
C29_Witness ==
    /\ tasks = <<>>
    /\ IsCall(last, "abort_deployment")
    /\ ReturnedContent(last, "Deployment is in 'failed' state, not 'in_progress'. "
                             \o "Cannot abort.")
    /\ current_deployment # NoRecord
    /\ "Starting deployment..." \in Range(records[current_deployment].log)


\* The deploy routine of a deployment type, as _start_deployment calls it.
RoutineOf(type, h, config, env) ==
    CASE type = "static" -> deploy_static(h, config, env)
      [] type = "docker" -> deploy_docker(h, config, env)
      [] type = "heroku" -> deploy_heroku(h, config, env)
      [] type = "custom" -> deploy_custom(h, config, env)

\* C30: start_deployment deploys the type and the configuration stored in
\* the current record, not the deploy_config the handler saved last: a
\* prepare_deployment(B) that fails validation saves B as deploy_config and
\* leaves the current record, prepared with A, as it was, and a
\* start_deployment runs the routine of the record's type with the record's
\* configuration.
C30_StartDeploysCurrentRecord ==
    [][/\ (IsCall(last', "start_deployment") /\ last'.rec # NoRecord) =>
             /\ last'.rec = current_deployment
             /\ \E env \in StartEnvs :
                \E r \in {after_routine(
                            RoutineOf(records[last'.rec].type,
                                      in_progress([Handler EXCEPT
                                                     !.repo_path = last'.arguments.repo_path],
                                                  last'.rec),
                                      records[last'.rec].config, env),
                            last'.rec)} :
                    /\ last'.out = r.out
                    /\ last'.result = r.result
                    /\ records' = r.h.records
       /\ (/\ IsCall(last', "prepare_deployment")
           /\ ~PrepareSucceeded(last')
           /\ Get(last'.arguments, "repo_path", None) \in ExistingPaths
           /\ TruthyDict(Get(last'.arguments, "deploy_config", EmptyDict))) =>
             /\ deploy_config' = last'.arguments.deploy_config
             /\ UNCHANGED <<deploy_status, records>>]_vars

\* After prepare_deployment of a custom configuration and a refused
\* prepare_deployment of an unsupported type, start_deployment ran the custom
\* routine of the current record with success while deploy_config was the
\* refused configuration.
C30_Witness ==
    /\ IsCall(last, "start_deployment")
    /\ last.rec # NoRecord
    /\ records[last.rec].type = "custom"
    /\ records[last.rec].config = CustomConfig
    /\ deploy_config = [type |-> "ftp"]
    /\ last.result.ran
    /\ last.result.success

====
